---------------------------- MODULE Spec2Model ----------------------------
(***************************************************************************)
(* Orange City Mart: the ledger (wallets, auctions, bids, bid holds, the   *)
(* transaction journal, settlements) and the handlers that move money:     *)
(* PlaceBid, endAuctionIfExpired, ApproveSettlement, Deposit, Withdraw.    *)
(*                                                                         *)
(* Each handler runs one database transaction.  A transaction's writes are *)
(* buffered and become visible to the others at its commit, all at once    *)
(* (PostgreSQL READ COMMITTED); a SELECT ... FOR UPDATE or an UPDATE of a   *)
(* row waits until no other transaction holds the row, then reads the      *)
(* committed row and holds it until commit or rollback.  A handler is      *)
(* therefore one step per row lock it takes: the first step is taken when  *)
(* its first statement gets its row (a request that waits for a row is not *)
(* yet in the state), and the last step also commits.  Amounts are whole   *)
(* multiples of the NUMERIC(12,2) unit.                                    *)
(*                                                                         *)
(* The WebSocket Hub is part of the state.  Under Spec no connection is    *)
(* ever opened, so the two Hub calls of PlaceBid find nobody and are one   *)
(* step (PlaceBidNotify).  Under SpecHub connections come and go, and a    *)
(* Hub call is one step under the Hub's lock and one step for the sends    *)
(* it makes after releasing it.  Under SpecChat the connections also       *)
(* join a chat room and send frames, and the chat handlers persist and     *)
(* broadcast messages.  Under SpecLocks two auctions stand side by side    *)
(* and the handlers that take more than one row lock run concurrently.     *)
(* FairHub is SpecHub with Hub.Run's goroutine scheduled fairly.           *)
(*                                                                         *)
(* The browser's side of a connection, the hooks useAuctionSocket and      *)
(* useChatSocket, is the last part of the state: the WebSockets the hook   *)
(* has made, its three refs and its effect.  SpecHook runs the hook's      *)
(* callbacks: the effect and its cleanup, the socket events, the timer.    *)
(***************************************************************************)
EXTENDS Integers, Sequences, FiniteSets, Bags, TLC

VARIABLES
    wallet_balance,   \* users.wallet_balance, by user id
    auctions,         \* auctions rows (with the seller of the product), by id
    bids,             \* bids rows of each auction, in insertion order
    bid_holds,        \* bid_holds rows of each auction, in insertion order
    transactions,     \* the transactions table (journal), a bag of rows
    settlements,      \* the settlements row of each auction, or NoRow
    now,              \* the server's wall clock
    req,              \* the transaction in flight in each handler slot
    hubCalls,         \* what the handlers handed to the Hub, in order
    client,           \* the Client struct of each connection, or NoClient
    send,             \* Client.send of each connection: the queued messages
    closed,           \* whether Client.send of each connection is closed
    pump,             \* where each connection's readPump/writePump are
    register,         \* Hub.register, the channel's content in order
    unregister,       \* Hub.unregister, the channel's content in order
    clients,          \* Hub.clients
    userIndex,        \* Hub.userIndex, by user id
    auctionRooms,     \* Hub.auctionRooms, by auction id
    chatRooms,        \* Hub.chatRooms, by room id
    messages,         \* the messages table, in insertion order
    frame,            \* where each connection's readPump is with a frame
    sockets,          \* the WebSocket objects a hook instance has created
    wsRef,            \* wsRef.current: the socket connect() made last
    retryCount,       \* retryCount.current
    retryTimer,       \* retryTimer.current: the timer onclose set last
    effect            \* the run of useEffect that is in force, if any

chatVars == <<chatRooms, messages, frame>>

hookVars == <<sockets, wsRef, retryCount, retryTimer, effect>>

hubVars == <<client, send, closed, pump, register, unregister,
             clients, userIndex, auctionRooms, chatVars,
             hookVars>>

vars == <<wallet_balance, auctions, bids, bid_holds, transactions,
          settlements, now, req, hubCalls, hubVars>>

dbVars == <<wallet_balance, auctions, bids, bid_holds, transactions, settlements>>

-----------------------------------------------------------------------------
(* The bounds of the model. *)

\* The clock runs from 0 to MaxTime.
MaxTime == 1

\* Bid amounts are 1 .. MaxBid.
MaxBid == 3

Users == {"u1", "u2", "u3"}

Procs == {"p1", "p2"}

NoUser == "nobody"

\* An auction id with no row.
NoAuction == "a0"

NoRow == [status |-> "absent"]

NoRef == "none"

Amounts == 1 .. MaxBid

\* upi_ref values: "r0" is the reference of a seeded DEPOSIT row.
Refs == {"r0", "r1"}

\* The users who deposit and withdraw, and the amounts they ask for.
Depositors == {"u2", "u3"}

DepositAmounts == {1}

Withdrawers == {"u2"}

WithdrawAmounts == {2}

-----------------------------------------------------------------------------
(* Rows. *)

Auction(seller, start, high, bidder, endTime) ==
    [seller_id |-> seller, start_price |-> start, current_highest_bid |-> high,
     highest_bidder_id |-> bidder, end_time |-> endTime, status |-> "ACTIVE"]

\* CreateProduct: INSERT INTO auctions (product_id, start_price,
\* current_highest_bid, end_time, status) VALUES ($1, $2, 0, $4, 'ACTIVE').
CreatedAuction == Auction("u1", 2, 0, NoUser, 0)

\* A seeded auction: a highest bidder and a current bid, and no bid_holds row.
SeedAuction == Auction("u1", 1, 1, "u2", 0)

SeedBids == << [user_id |-> "u2", amount |-> 1] >>

SeedBalance(u) == CASE u = "u1" -> 3 [] u = "u2" -> 2 [] OTHER -> 3

Txn(u, amt, type, ref) ==
    [user_id |-> u, amount |-> amt, type |-> type, reference |-> ref]

SeedTransactions ==
    SetToBag({ Txn("u2", 2, "DEPOSIT", "r0"), Txn("u2", 1, "BID_HOLD", "a2") })

Hold(u, amt, st) == [user_id |-> u, amount |-> amt, status |-> st]

Settlement(winner, seller, amt) ==
    [winner_id |-> winner, seller_id |-> seller, amount |-> amt,
     winner_approved |-> FALSE, seller_approved |-> FALSE, status |-> "PENDING"]

AuctionIds == DOMAIN auctions

\* WebSocket connections, numbered in the order NewClient makes them.
MaxConns == 2

\* Capacity of Client.send (256 in the source): two messages can wait in a
\* buffer.
SendCap == 2

Conns == 1 .. MaxConns

NoConn == 0

\* The empty room_id.
NoRoom == "r0"

\* Chat rooms: the room of u1 and u2.
ChatRoomIds == {"u1_u2"}

NoClient == [ID |-> NoUser, AuctionID |-> NoAuction, RoomID |-> NoRoom]

\* readPump is in ReadMessage.
NoFrame == [pc |-> "read", id |-> 0, room |-> << >>]

\* The users that open connections, and the keys of Hub.auctionRooms.
ConnUsers == {"u2"}

RoomIds == {"a1", "a2"}

-----------------------------------------------------------------------------
(* Requests, row locks and responses. *)

IdleReq ==
    [op |-> "none", pc |-> "idle", auction |-> NoAuction, user |-> NoUser,
     amount |-> 0, ref |-> NoRef, locks |-> {}, prev |-> NoUser, prevBid |-> 0,
     room |-> << >>, target |-> NoConn, room_id |-> NoRoom, msg |-> 0]

TxPcs == {"lockBidder", "lockPrev", "lockUser", "lockSeller"}

InTx(p) == req[p].pc \in TxPcs

Idle(p) == req[p].pc = "idle"

AuctionRow(a) == <<"auctions", a>>

UserRow(u) == <<"users", u>>

SettlementRow(a) == <<"settlements", a>>

\* No statement waits for a row.
RowFreeAlways(p, row) == TRUE

\* FOR UPDATE / UPDATE: the row is free when no other transaction holds it.
RowFree(p, row) == \A q \in Procs \ {p} : row \notin req[q].locks

\* The transaction in slot p ends (commit, or the deferred Rollback) and the
\* handler writes its response.
Return(p) == req' = [req EXCEPT ![p] = IdleReq]

\* NewHub: empty maps and channels; no connection exists yet.
\* The WebSocket objects one hook instance creates, in the order of creation.
MaxSockets == 8

\* The runs of the hook's effect: the mount and the changes of its
\* dependencies (auction, room or user).
MaxEffects == 2

\* if (retryCount.current < 5)
MaxRetries == 5

Sockets == 1 .. MaxSockets

NoSocket == [readyState |-> "none", effect |-> 0, timer |-> "none"]

\* The hook before its component is mounted.
NewHook ==
    /\ sockets = [s \in Sockets |-> NoSocket]
    /\ wsRef = 0
    /\ retryCount = 0
    /\ retryTimer = 0
    /\ effect = [run |-> 0, active |-> FALSE]

NewHub ==
    /\ client = [c \in Conns |-> NoClient]
    /\ send = [c \in Conns |-> << >>]
    /\ closed = [c \in Conns |-> FALSE]
    /\ pump = [c \in Conns |-> "none"]
    /\ register = << >>
    /\ unregister = << >>
    /\ clients = {}
    /\ userIndex = [u \in Users |-> NoConn]
    /\ auctionRooms = [a \in {} |-> << >>]
    /\ chatRooms = [r \in {} |-> << >>]
    /\ messages = << >>
    /\ frame = [c \in Conns |-> NoFrame]
    /\ NewHook

InitLedger ==
    /\ wallet_balance = [u \in Users |-> SeedBalance(u)]
    /\ transactions = SeedTransactions
    /\ now = 0
    /\ req = [p \in Procs |-> IdleReq]
    /\ hubCalls = << >>
    /\ NewHub

\* The model follows one auction: one created through CreateProduct, or a
\* seeded one.
Init ==
    /\ InitLedger
    /\ \E seeded \in BOOLEAN :
         /\ auctions = IF seeded THEN [a \in {"a2"} |-> SeedAuction]
                                 ELSE [a \in {"a1"} |-> CreatedAuction]
         /\ bids = IF seeded THEN [a \in {"a2"} |-> SeedBids]
                             ELSE [a \in {"a1"} |-> << >>]
         /\ bid_holds = IF seeded THEN [a \in {"a2"} |-> << >>]
                                  ELSE [a \in {"a1"} |-> << >>]
         /\ settlements = IF seeded THEN [a \in {"a2"} |-> NoRow]
                                    ELSE [a \in {"a1"} |-> NoRow]

Tick ==
    /\ now < MaxTime
    /\ now' = now + 1
    /\ UNCHANGED <<dbVars, req, hubCalls, hubVars>>

-----------------------------------------------------------------------------
(* PlaceBid. *)

\* Bids are taken whatever the status and the time.
AuctionOpenAlways(status, endTime, t) == TRUE

\* Bids are taken only before the end time.
AuctionOpenBeforeEnd(status, endTime, t) == status = "ACTIVE" /\ t < endTime

\* if status != "ACTIVE" || time.Now().After(endTime) { 409 }
AuctionOpen(status, endTime, t) == status = "ACTIVE" /\ ~(t > endTime)

\* A tie with the current highest bid passes.
BidHighEnoughTie(amount, currentHighBid) == ~(amount < currentHighBid)

\* if req.Amount <= currentHighBid { 409 }
BidHighEnough(amount, currentHighBid) == ~(amount <= currentHighBid)

\* The balance is not compared with the amount.
SufficientFundsUnchecked(balance, amount) == TRUE

\* if bidderBalance < req.Amount { 402 }
SufficientFunds(balance, amount) == ~(balance < amount)

\* A bidder raising their own bid is displaced like anybody else.
DisplacesSelf(prev, u) == prev # NoUser

\* Nobody is ever displaced.
DisplacesNobody(prev, u) == FALSE

\* if prevHighBidderID != nil && *prevHighBidderID != userID
Displaces(prev, u) == prev # NoUser /\ prev # u

\* UPDATE bid_holds SET status = to WHERE user_id = u AND status = from
\* (on the rows of one auction).
\* The user's holds are updated whatever their status.
UpdateHoldsAnyStatus(rows, u, from, to) ==
    [i \in 1 .. Len(rows) |->
        IF rows[i].user_id = u THEN [rows[i] EXCEPT !.status = to] ELSE rows[i]]

\* UPDATE bid_holds SET status = to WHERE auction_id = $1 AND user_id = $2
\* AND status = from
UpdateHolds(rows, u, from, to) ==
    [i \in 1 .. Len(rows) |->
        IF rows[i].user_id = u /\ rows[i].status = from
        THEN [rows[i] EXCEPT !.status = to]
        ELSE rows[i]]

BidMsg(a, amt, u) ==
    [type |-> "broadcast_new_bid", auction_id |-> a, amount |-> amt,
     bidder_id |-> u, your_bid |-> 0, to |-> a]

OutbidMsg(a, prevBid, amt, u, prev) ==
    [type |-> "outbid_alert", auction_id |-> a, amount |-> amt,
     bidder_id |-> u, your_bid |-> prevBid, to |-> prev]

\* The refund is credited and no REFUND row is written.
RefundEntryOmitted(out, prev, prevBid, a) == EmptyBag

\* The REFUND row of the displaced bidder, when there is one.
RefundEntry(out, prev, prevBid, a) ==
    IF out THEN SetToBag({Txn(prev, prevBid, "REFUND", a)}) ELSE EmptyBag

\* The handler goes on to the Hub with the bidder's row locked, before the
\* writes and the commit.
CommittedOrPending(p) == req[p].pc \in {"notify", "lockPrev"}

\* if err = tx.Commit(ctx); err != nil { 500 }: the handler goes on to the Hub
\* when the commit has succeeded.
Committed(p) == req[p].pc = "notify"

\* The checks on the locked auction row: the response, or "" to go on.
PlaceBidAuctionCheck(a, amt) ==
    IF a \notin AuctionIds THEN "NotFound"
    ELSE IF ~AuctionOpen(auctions[a].status, auctions[a].end_time, now)
    THEN "AuctionClosed"
    ELSE IF ~BidHighEnough(amt, auctions[a].current_highest_bid) THEN "BidTooLow"
    ELSE ""

\* SELECT ... FROM auctions WHERE id = $1 FOR UPDATE, and the two checks on it.
PlaceBidLockAuction(p) ==
    \E a \in AuctionIds \cup {NoAuction}, u \in Users, amt \in Amounts :
        /\ Idle(p)
        /\ a \in AuctionIds => RowFree(p, AuctionRow(a))
        /\ IF PlaceBidAuctionCheck(a, amt) # ""
           THEN UNCHANGED req
           ELSE /\ req' = [req EXCEPT ![p] =
                      [IdleReq EXCEPT !.op = "PlaceBid", !.pc = "lockBidder",
                          !.auction = a, !.user = u, !.amount = amt,
                          !.locks = {AuctionRow(a)},
                          !.prev = auctions[a].highest_bidder_id,
                          !.prevBid = auctions[a].current_highest_bid]]
        /\ UNCHANGED <<dbVars, now, hubCalls, hubVars>>

\* The statements from the release of the previous bidder's hold to the
\* Commit, which makes them visible together.
PlaceBidWrites(p) ==
    LET a == req[p].auction
        u == req[p].user
        amt == req[p].amount
        prev == req[p].prev
        prevBid == req[p].prevBid
        out == Displaces(prev, u)
    IN  /\ bid_holds' = [bid_holds EXCEPT ![a] =
              Append(IF out THEN UpdateHolds(@, prev, "SOFT", "RELEASED") ELSE @,
                     Hold(u, amt, "SOFT"))]
        /\ wallet_balance' = [x \in Users |->
              wallet_balance[x] + (IF out /\ x = prev THEN prevBid ELSE 0)
                                - (IF x = u THEN amt ELSE 0)]
        /\ transactions' = transactions
              (+) RefundEntry(out, prev, prevBid, a)
              (+) SetToBag({Txn(u, amt, "BID_HOLD", a)})
        /\ auctions' = [auctions EXCEPT ![a].current_highest_bid = amt,
                                        ![a].highest_bidder_id = u]
        /\ bids' = [bids EXCEPT ![a] = Append(@, [user_id |-> u, amount |-> amt])]
        /\ UNCHANGED settlements
        /\ req' = [req EXCEPT ![p].pc = "notify", ![p].locks = {}]

\* SELECT wallet_balance FROM users WHERE id = $1 FOR UPDATE, and the check.
PlaceBidLockBidder(p) ==
    LET u == req[p].user IN
    /\ req[p].op = "PlaceBid" /\ req[p].pc = "lockBidder"
    /\ RowFree(p, UserRow(u))
    /\ IF ~SufficientFunds(wallet_balance[u], req[p].amount)
       THEN Return(p) /\ UNCHANGED dbVars      \* 402 insufficient funds
       ELSE IF Displaces(req[p].prev, u)
       THEN /\ req' = [req EXCEPT ![p].pc = "lockPrev",
                                  ![p].locks = @ \cup {UserRow(u)}]
            /\ UNCHANGED dbVars
       ELSE PlaceBidWrites(p)
    /\ UNCHANGED <<now, hubCalls, hubVars>>

\* UPDATE users SET wallet_balance = wallet_balance + $1 WHERE id = prev
\* waits for the previous bidder's row.
PlaceBidLockPrev(p) ==
    /\ req[p].op = "PlaceBid" /\ req[p].pc = "lockPrev"
    /\ RowFree(p, UserRow(req[p].prev))
    /\ PlaceBidWrites(p)
    /\ UNCHANGED <<now, hubCalls, hubVars>>

\* After the commit: BroadcastToAuction, then SendToUser to the displaced user.
PlaceBidNotify(p) ==
    LET a == req[p].auction
        u == req[p].user
        prev == req[p].prev
    IN  /\ req[p].op = "PlaceBid" /\ Committed(p)
        /\ hubCalls' = hubCalls \o << BidMsg(a, req[p].amount, u) >>
              \o (IF Displaces(prev, u)
                  THEN << OutbidMsg(a, req[p].prevBid, req[p].amount, u, prev) >>
                  ELSE << >>)
        /\ Return(p)
        /\ UNCHANGED <<dbVars, now, hubVars>>

\* The handler returns an error and the bidder's debit stays.
AbortKeepingDebit(p) ==
    /\ InTx(p)
    /\ Return(p)
    /\ wallet_balance' = [wallet_balance EXCEPT ![req[p].user] = @ - 1]
    /\ UNCHANGED <<auctions, bids, bid_holds, transactions, settlements,
                   now, hubCalls, hubVars>>

\* A statement or the commit fails, or the request's deadline expires: the
\* handler returns an error and the deferred Rollback discards the writes.
Abort(p) ==
    /\ InTx(p)
    /\ Return(p)
    /\ UNCHANGED <<dbVars, now, hubCalls, hubVars>>

-----------------------------------------------------------------------------
(* endAuctionIfExpired, which GetAuction calls before it reads. *)

\* The auction is ended from its end time on.
ExpiredAtEnd(status, endTime, t) == status = "ACTIVE" /\ ~(t < endTime)

\* if status != "ACTIVE" || !time.Now().After(endTime) { return nil }
Expired(status, endTime, t) == ~(status # "ACTIVE" \/ ~(t > endTime))

\* SELECT id, user_id, amount FROM bid_holds
\* WHERE auction_id = $1 AND status = 'SOFT' AND user_id != $2
OtherSoftHolds(rows, winner) ==
    {i \in 1 .. Len(rows) : rows[i].status = "SOFT" /\ rows[i].user_id # winner}

RECURSIVE SumAmounts(_, _)
\* The sum of the amounts of the rows at the indices in idx.
SumAmounts(rows, idx) ==
    IF idx = {} THEN 0
    ELSE LET i == CHOOSE j \in idx : TRUE
         IN  rows[i].amount + SumAmounts(rows, idx \ {i})

RECURSIVE RefundRows(_, _, _)
\* One REFUND journal row for each hold at the indices in idx.
RefundRows(rows, idx, a) ==
    IF idx = {} THEN EmptyBag
    ELSE LET i == CHOOSE j \in idx : TRUE
         IN  SetToBag({Txn(rows[i].user_id, rows[i].amount, "REFUND", a)})
                (+) RefundRows(rows, idx \ {i}, a)

\* for _, h := range others: UPDATE bid_holds SET status = 'RELEASED' WHERE id = h.id
ReleaseRows(rows, idx) ==
    [i \in 1 .. Len(rows) |->
        IF i \in idx THEN [rows[i] EXCEPT !.status = "RELEASED"] ELSE rows[i]]

\* Every ended auction is treated as having a highest bidder.
HasWinnerAlways(winner) == TRUE

\* if highestBidderID != nil
HasWinner(winner) == winner # NoUser

\* No settlement row is inserted.
InsertSettlementSkipped(old, winner, seller, amt) == old

\* INSERT INTO settlements ... ON CONFLICT (auction_id) DO NOTHING
InsertSettlement(old, winner, seller, amt) ==
    IF old = NoRow THEN Settlement(winner, seller, amt) ELSE old

\* The end transition of auction a, from the UPDATE of its status to the Commit.
\* The auction row is left as it was.
MarkEndedSkipped(row) == row

\* UPDATE auctions SET status = 'ENDED' WHERE id = $1
MarkEnded(row) == [row EXCEPT !.status = "ENDED"]

EndAuctionWrites(a) ==
    LET row == auctions[a]
        winner == row.highest_bidder_id
        promoted == UpdateHolds(bid_holds[a], winner, "SOFT", "HARD")
        others == OtherSoftHolds(promoted, winner)
    IN  /\ auctions' = [auctions EXCEPT ![a] = MarkEnded(@)]
        /\ IF HasWinner(winner)
           THEN /\ bid_holds' = [bid_holds EXCEPT ![a] = ReleaseRows(promoted, others)]
                /\ wallet_balance' = [x \in Users |->
                      wallet_balance[x]
                        + SumAmounts(promoted, {i \in others : promoted[i].user_id = x})]
                /\ transactions' = transactions (+) RefundRows(promoted, others, a)
                /\ settlements' = [settlements EXCEPT ![a] =
                      InsertSettlement(@, winner, row.seller_id, row.current_highest_bid)]
           ELSE UNCHANGED <<bid_holds, wallet_balance, transactions, settlements>>
        /\ UNCHANGED bids

\* One call: the rows of the auction and of the users it refunds are taken
\* together (no reachable state has a SOFT hold of a user other than the
\* highest bidder, so the refunds never wait).
endAuctionIfExpired(p) ==
    \E a \in AuctionIds \cup {NoAuction} :
        /\ Idle(p)
        /\ a \in AuctionIds => RowFree(p, AuctionRow(a))
        /\ IF a \notin AuctionIds
           THEN UNCHANGED req /\ UNCHANGED dbVars
           ELSE IF ~Expired(auctions[a].status, auctions[a].end_time, now)
           THEN UNCHANGED req /\ UNCHANGED dbVars
           ELSE /\ \A i \in OtherSoftHolds(bid_holds[a], auctions[a].highest_bidder_id) :
                      RowFree(p, UserRow(bid_holds[a][i].user_id))
                /\ EndAuctionWrites(a)
                /\ UNCHANGED req
        /\ UNCHANGED <<now, hubCalls, hubVars>>

-----------------------------------------------------------------------------
(* ApproveSettlement. *)

\* switch callerID { case winnerID: ... case sellerID: ... default: 403 }
PartyOf(row, caller) ==
    IF caller = row.winner_id THEN "winner"
    ELSE IF caller = row.seller_id THEN "seller"
    ELSE "none"

\* The caller's own earlier approval is not looked at.
ApproveCheckRepeatable(a, caller) ==
    IF a \notin AuctionIds THEN "NotFound"
    ELSE IF settlements[a] = NoRow THEN "NotFound"
    ELSE IF settlements[a].status = "COMPLETED" THEN "AlreadyCompleted"
    ELSE IF PartyOf(settlements[a], caller) = "none" THEN "Forbidden"
    ELSE ""

\* The checks on the locked settlement row: the response, or "" to go on.
ApproveCheck(a, caller) ==
    IF a \notin AuctionIds THEN "NotFound"
    ELSE IF settlements[a] = NoRow THEN "NotFound"
    ELSE IF settlements[a].status = "COMPLETED" THEN "AlreadyCompleted"
    ELSE IF PartyOf(settlements[a], caller) = "winner"
    THEN (IF settlements[a].winner_approved THEN "AlreadyApproved" ELSE "")
    ELSE IF PartyOf(settlements[a], caller) = "seller"
    THEN (IF settlements[a].seller_approved THEN "AlreadyApproved" ELSE "")
    ELSE "Forbidden"

\* Both approvals are stamped at once.
StampBoth(row, caller) ==
    [row EXCEPT !.winner_approved = TRUE, !.seller_approved = TRUE]

\* UPDATE settlements SET winner_approved_at / seller_approved_at = NOW()
Stamp(row, caller) ==
    IF PartyOf(row, caller) = "winner"
    THEN [row EXCEPT !.winner_approved = TRUE]
    ELSE [row EXCEPT !.seller_approved = TRUE]

\* One approval is enough.
BothApprovedEither(row) == row.winner_approved \/ row.seller_approved

\* bothApproved := winnerApprovedAt != nil && sellerApprovedAt != nil
BothApproved(row) == row.winner_approved /\ row.seller_approved

\* SELECT ... FROM settlements WHERE auction_id = $1 FOR UPDATE, the checks and
\* the caller's stamp; with one approval the transaction commits here.
ApproveLockSettlement(p) ==
    \E a \in AuctionIds \cup {NoAuction}, caller \in Users :
        /\ Idle(p)
        /\ (a \in AuctionIds /\ settlements[a] # NoRow) => RowFree(p, SettlementRow(a))
        /\ IF ApproveCheck(a, caller) # ""
           THEN /\ UNCHANGED req
                /\ UNCHANGED settlements
           ELSE IF BothApproved(Stamp(settlements[a], caller))
           THEN /\ req' = [req EXCEPT ![p] =
                      [IdleReq EXCEPT !.op = "Approve", !.pc = "lockSeller",
                          !.auction = a, !.user = caller,
                          !.locks = {SettlementRow(a)}]]
                /\ UNCHANGED settlements
           ELSE /\ settlements' = [settlements EXCEPT ![a] = Stamp(@, caller)]
                /\ UNCHANGED req
        /\ UNCHANGED <<wallet_balance, auctions, bids, bid_holds, transactions,
                       now, hubCalls, hubVars>>

\* The transfer, from the UPDATE of the settlement's status to the Commit.
TransferWrites(a, caller) ==
    LET row == settlements[a] IN
    /\ settlements' = [settlements EXCEPT ![a] =
          [Stamp(row, caller) EXCEPT !.status = "COMPLETED"]]
    /\ bid_holds' = [bid_holds EXCEPT ![a] =
          UpdateHolds(@, row.winner_id, "HARD", "SETTLED")]
    /\ wallet_balance' = [wallet_balance EXCEPT ![row.seller_id] = @ + row.amount]
    /\ transactions' = transactions
          (+) SetToBag({Txn(row.winner_id, row.amount, "TRANSFER", a)})
          (+) SetToBag({Txn(row.seller_id, row.amount, "TRANSFER", a)})
    /\ UNCHANGED <<auctions, bids>>

\* UPDATE users SET wallet_balance = wallet_balance + $1 WHERE id = seller
\* waits for the seller's row; then the Commit.
ApproveLockSeller(p) ==
    LET a == req[p].auction IN
    /\ req[p].op = "Approve" /\ req[p].pc = "lockSeller"
    /\ RowFree(p, UserRow(settlements[a].seller_id))
    /\ TransferWrites(a, req[p].user)
    /\ Return(p)
    /\ UNCHANGED <<now, hubCalls, hubVars>>

-----------------------------------------------------------------------------
(* Deposit and Withdraw. *)

\* SELECT COUNT(*) FROM transactions WHERE reference = $1 AND type = 'DEPOSIT'
DuplicateDeposit(ref) ==
    \E t \in BagToSet(transactions) : t.reference = ref /\ t.type = "DEPOSIT"

\* The idempotency check reads the committed journal and takes no row.
DepositCheck(p) ==
    \E u \in Depositors, amt \in DepositAmounts, ref \in Refs :
        /\ Idle(p)
        /\ IF DuplicateDeposit(ref)
           THEN UNCHANGED req
           ELSE /\ req' = [req EXCEPT ![p] =
                      [IdleReq EXCEPT !.op = "Deposit", !.pc = "lockUser",
                          !.user = u, !.amount = amt, !.ref = ref]]
        /\ UNCHANGED <<dbVars, now, hubCalls, hubVars>>

\* UPDATE users SET wallet_balance = wallet_balance + $1, the INSERT of the
\* DEPOSIT row and the Commit.
DepositLockUser(p) ==
    LET u == req[p].user IN
    /\ req[p].op = "Deposit" /\ req[p].pc = "lockUser"
    /\ RowFree(p, UserRow(u))
    /\ wallet_balance' = [wallet_balance EXCEPT ![u] = @ + req[p].amount]
    /\ transactions' = transactions
          (+) SetToBag({Txn(u, req[p].amount, "DEPOSIT", req[p].ref)})
    /\ Return(p)
    /\ UNCHANGED <<auctions, bids, bid_holds, settlements, now, hubCalls, hubVars>>

\* SELECT wallet_balance ... FOR UPDATE, the check, the debit, the INSERT of
\* the WITHDRAW row and the Commit.
Withdraw(p) ==
    \E u \in Withdrawers, amt \in WithdrawAmounts :
        /\ Idle(p)
        /\ RowFree(p, UserRow(u))
        /\ IF ~SufficientFunds(wallet_balance[u], amt)
           THEN /\ UNCHANGED req
                /\ UNCHANGED <<wallet_balance, transactions>>
           ELSE /\ wallet_balance' = [wallet_balance EXCEPT ![u] = @ - amt]
                /\ transactions' = transactions
                      (+) SetToBag({Txn(u, amt, "WITHDRAW", "upi")})
                /\ UNCHANGED req
        /\ UNCHANGED <<auctions, bids, bid_holds, settlements, now, hubCalls, hubVars>>

-----------------------------------------------------------------------------
(* The Hub: connections, the Run loop, and the two calls PlaceBid makes. *)

\* NewClient: a connection of user u watching auction a (NoAuction: none) in
\* chat room r (NoRoom: none) is made, handed to Hub.register, and its pumps
\* start.
NewClient(c, u, a, r) ==
    /\ pump[c] = "none"
    /\ \A d \in Conns : d < c => pump[d] # "none"
    /\ client' = [client EXCEPT ![c] = [ID |-> u, AuctionID |-> a, RoomID |-> r]]
    /\ register' = Append(register, c)
    /\ pump' = [pump EXCEPT ![c] = "running"]
    /\ UNCHANGED <<dbVars, now, req, hubCalls, send, closed, unregister,
                   clients, userIndex, auctionRooms, chatVars,
             hookVars>>

\* m[key] of a Go map of slices: the slice under key, nil when there is none.
At(m, key) == IF key \in DOMAIN m THEN m[key] ELSE << >>

\* m[key] = list
Put(m, key, list) ==
    [k \in DOMAIN m \cup {key} |-> IF k = key THEN list ELSE m[k]]

\* delete(m, key)
Delete(m, key) == [k \in DOMAIN m \ {key} |-> m[k]]

\* Run, case <-h.register: the newer connection of a user replaces the older
\* one in userIndex.
RunRegister ==
    /\ register # << >>
    /\ LET c == Head(register)
       IN  /\ register' = Tail(register)
           /\ clients' = clients \cup {c}
           /\ userIndex' = IF client[c].ID # NoUser
                           THEN [userIndex EXCEPT ![client[c].ID] = c]
                           ELSE userIndex
           /\ auctionRooms' =
                IF client[c].AuctionID # NoAuction
                THEN Put(auctionRooms, client[c].AuctionID,
                         Append(At(auctionRooms, client[c].AuctionID), c))
                ELSE auctionRooms
           /\ chatRooms' =
                IF client[c].RoomID # NoRoom
                THEN Put(chatRooms, client[c].RoomID,
                         Append(At(chatRooms, client[c].RoomID), c))
                ELSE chatRooms
    /\ UNCHANGED <<dbVars, now, req, hubCalls, client, send, closed, pump,
                   unregister, messages, frame,
                   hookVars>>

\* readPump: the read fails (the peer left, or the socket was closed); the
\* deferred function hands the connection to Hub.unregister and closes the
\* socket, after which writePump's writes fail and it stops draining.
ReadPumpExit(c) ==
    /\ pump[c] \in {"running", "writeFailed"}
    /\ frame[c] = NoFrame
    /\ pump' = [pump EXCEPT ![c] = "exited"]
    /\ unregister' = Append(unregister, c)
    /\ UNCHANGED <<dbVars, now, req, hubCalls, client, send, closed, register,
                   clients, userIndex, auctionRooms, chatVars,
             hookVars>>

\* delete(h.userIndex, c.ID): the user's entry goes, whichever connection it
\* names.
DeleteIndex(c) == [userIndex EXCEPT ![client[c].ID] = NoConn]

\* append(clients[:i], clients[i+1:]...) for the first i with clients[i] == c
RemoveFirst(list, c) ==
    IF \E i \in 1 .. Len(list) : list[i] = c
    THEN LET i == CHOOSE j \in 1 .. Len(list) :
                      list[j] = c /\ \A k \in 1 .. j - 1 : list[k] # c
         IN  SubSeq(list, 1, i - 1) \o SubSeq(list, i + 1, Len(list))
    ELSE list

\* The key of a list that became empty stays in the map.
removeFromSliceKeepingKey(m, key, c) ==
    IF key \in {NoAuction, NoRoom} \/ key \notin DOMAIN m
    THEN m
    ELSE Put(m, key, RemoveFirst(m[key], c))

removeFromSlice(m, key, c) ==
    IF key \in {NoAuction, NoRoom} \/ key \notin DOMAIN m
    THEN m
    ELSE IF Len(RemoveFirst(m[key], c)) = 0
    THEN Delete(m, key)
    ELSE Put(m, key, RemoveFirst(m[key], c))

\* Run, case <-h.unregister.
RunUnregister ==
    /\ unregister # << >>
    /\ LET c == Head(unregister)
       IN  /\ unregister' = Tail(unregister)
           /\ IF c \in clients
              THEN /\ clients' = clients \ {c}
                   /\ userIndex' = DeleteIndex(c)
                   /\ auctionRooms' =
                        removeFromSlice(auctionRooms, client[c].AuctionID, c)
                   /\ chatRooms' = removeFromSlice(chatRooms, client[c].RoomID, c)
                   /\ closed' = [closed EXCEPT ![c] = TRUE]
              ELSE UNCHANGED <<clients, userIndex, auctionRooms, chatRooms, closed>>
    /\ UNCHANGED <<dbVars, now, req, hubCalls, client, send, pump, register,
                   messages, frame,
                   hookVars>>

\* writePump takes the next queued message and writes it to the socket.
writePump(c) ==
    /\ pump[c] = "running"
    /\ send[c] # << >>
    /\ send' = [send EXCEPT ![c] = Tail(@)]
    /\ UNCHANGED <<dbVars, now, req, hubCalls, client, closed, pump, register,
                   unregister, clients, userIndex, auctionRooms, chatVars,
             hookVars>>

\* The message is queued whether or not there is room.
TrySendUnbounded(q, msg) == Append(q, msg)

\* writePump: the write fails; it stops draining and its deferred Close closes
\* the socket, so that readPump's next read fails.
writePumpFail(c) ==
    /\ pump[c] = "running"
    /\ send[c] # << >>
    /\ send' = [send EXCEPT ![c] = Tail(@)]
    /\ pump' = [pump EXCEPT ![c] = "writeFailed"]
    /\ UNCHANGED <<dbVars, now, req, hubCalls, client, closed, register,
                   unregister, clients, userIndex, auctionRooms, chatVars,
             hookVars>>

\* select { case c.send <- data: default: }: queued when there is room,
\* dropped otherwise.
TrySend(q, msg) == IF Len(q) < SendCap THEN Append(q, msg) ELSE q

\* The sends of BroadcastToAuction over its copy of the room, in order. A send
\* on a closed channel panics: the sends before it are made, the rest are not.
RECURSIVE FanOut(_, _, _)
FanOut(s, room, msg) ==
    IF room = << >> \/ closed[Head(room)]
    THEN s
    ELSE FanOut([s EXCEPT ![Head(room)] = TrySend(@, msg)], Tail(room), msg)

Panics(room) == \E i \in 1 .. Len(room) : closed[room[i]]

\* BroadcastToAuction, under RLock: the room is copied.
PlaceBidBroadcast(p) ==
    LET a == req[p].auction
    IN  /\ req[p].op = "PlaceBid" /\ Committed(p)
        /\ hubCalls' = Append(hubCalls, BidMsg(a, req[p].amount, req[p].user))
        /\ req' = [req EXCEPT ![p].pc = "fanOut", ![p].room = At(auctionRooms, a)]
        /\ UNCHANGED <<dbVars, now, hubVars>>

\* BroadcastToAuction, after RUnlock: the sends. A panic ends the handler
\* (middleware.Recoverer answers 500) before SendToUser.
PlaceBidFanOut(p) ==
    LET msg == BidMsg(req[p].auction, req[p].amount, req[p].user)
    IN  /\ req[p].op = "PlaceBid" /\ req[p].pc = "fanOut"
        /\ send' = FanOut(send, req[p].room, msg)
        /\ IF ~Panics(req[p].room) /\ Displaces(req[p].prev, req[p].user)
           THEN req' = [req EXCEPT ![p].pc = "sendToUser", ![p].room = << >>]
           ELSE Return(p)
        /\ UNCHANGED <<dbVars, now, hubCalls, client, closed, pump, register,
                       unregister, clients, userIndex, auctionRooms, chatVars,
             hookVars>>

\* SendToUser, under RLock: the displaced user's connection is looked up.
PlaceBidSendToUser(p) ==
    LET prev == req[p].prev
    IN  /\ req[p].op = "PlaceBid" /\ req[p].pc = "sendToUser"
        /\ hubCalls' = Append(hubCalls,
               OutbidMsg(req[p].auction, req[p].prevBid, req[p].amount,
                         req[p].user, prev))
        /\ IF userIndex[prev] = NoConn
           THEN Return(p)
           ELSE req' = [req EXCEPT ![p].pc = "alert",
                                   ![p].target = userIndex[prev]]
        /\ UNCHANGED <<dbVars, now, hubVars>>

\* SendToUser, after RUnlock: the send.
PlaceBidAlert(p) ==
    LET c == req[p].target
        msg == OutbidMsg(req[p].auction, req[p].prevBid, req[p].amount,
                         req[p].user, req[p].prev)
    IN  /\ req[p].op = "PlaceBid" /\ req[p].pc = "alert"
        /\ send' = IF closed[c] THEN send ELSE [send EXCEPT ![c] = TrySend(@, msg)]
        /\ Return(p)
        /\ UNCHANGED <<dbVars, now, hubCalls, client, closed, pump, register,
                       unregister, clients, userIndex, auctionRooms, chatVars,
             hookVars>>

-----------------------------------------------------------------------------
(* Chat: readPump's chat_send frames, ChatHandler.SendMessage and GetMessages. *)

\* The messages table holds at most this many rows.
MaxMessages == 1

\* The users whose connections and requests take part in the chat.
ChatUsers == {"u1", "u3"}

\* An id as the string of its characters; ids are taken as single characters.
Chars(x) ==
    CASE x \in Users -> << x >>
      [] x = "u1_u2" -> << "u1", "_", "u2" >>
      [] OTHER -> << >>

\* strings.Contains(s, sub)
Contains(s, sub) ==
    \E i \in 1 .. Len(s) - Len(sub) + 1 : SubSeq(s, i, i + Len(sub) - 1) = sub

\* strings.Contains(rid, callerID)
Member(rid, callerID) == Contains(Chars(rid), Chars(callerID))

\* The frames a peer sends: whether the text is JSON, its type, and whether
\* payload.body and payload.image_url are there.
Frames ==
    { [json |-> TRUE, type |-> "chat_send", body |-> TRUE, image_url |-> FALSE],
      [json |-> TRUE, type |-> "chat_send", body |-> FALSE, image_url |-> TRUE],
      [json |-> TRUE, type |-> "chat_send", body |-> FALSE, image_url |-> FALSE],
      [json |-> TRUE, type |-> "ping", body |-> TRUE, image_url |-> FALSE],
      [json |-> FALSE, type |-> "", body |-> FALSE, image_url |-> FALSE] }

\* Every frame of a connection with a user id and a room id is accepted.
AcceptedUnchecked(c, f) ==
    client[c].ID # NoUser /\ client[c].RoomID # NoRoom

\* readPump's checks before the INSERT.
Accepted(c, f) ==
    /\ client[c].ID # NoUser /\ client[c].RoomID # NoRoom
    /\ f.json
    /\ f.type = "chat_send"
    /\ f.body \/ f.image_url

MessageRow(rid, sender, f) ==
    [room_id |-> rid, sender_id |-> sender, body |-> f.body,
     image_url |-> f.image_url]

ChatMsg(id, rid, sender) ==
    [type |-> "chat_message", id |-> id, room_id |-> rid, sender_id |-> sender,
     to |-> rid]

\* A panic in a goroutine of its own ends the process.
Crashed == \E c \in Conns : frame[c].pc = "panic"

\* readPump: ReadMessage returns a frame.
ReadMessage(c, f) ==
    /\ pump[c] = "running"
    /\ frame[c] = NoFrame
    /\ frame' = [frame EXCEPT ![c] = [pc |-> "frame", id |-> f, room |-> << >>]]
    /\ UNCHANGED <<dbVars, now, req, hubCalls, client, send, closed, pump,
                   register, unregister, clients, userIndex, auctionRooms,
                   chatRooms, messages,
                   hookVars>>

\* readPump: the checks and the INSERT INTO messages, which may fail (ok).
\* A frame that is dropped leaves readPump in its loop.
HandleFrame(c, ok) ==
    LET f == frame[c].id IN
    /\ frame[c].pc = "frame"
    /\ IF Accepted(c, f) /\ ok /\ Len(messages) < MaxMessages
       THEN /\ messages' = Append(messages,
                                  MessageRow(client[c].RoomID, client[c].ID, f))
            /\ frame' = [frame EXCEPT ![c] =
                           [pc |-> "broadcast", id |-> Len(messages) + 1,
                            room |-> << >>]]
       ELSE /\ frame' = [frame EXCEPT ![c] = NoFrame]
            /\ UNCHANGED messages
    /\ UNCHANGED <<dbVars, now, req, hubCalls, client, send, closed, pump,
                   register, unregister, clients, userIndex, auctionRooms,
                   chatRooms,
                   hookVars>>

\* readPump: BroadcastToChat, under RLock: the room is copied.
ChatBroadcast(c) ==
    /\ frame[c].pc = "broadcast"
    /\ hubCalls' = Append(hubCalls,
                          ChatMsg(frame[c].id, client[c].RoomID, client[c].ID))
    /\ frame' = [frame EXCEPT ![c].pc = "fanOut",
                              ![c].room = At(chatRooms, client[c].RoomID)]
    /\ UNCHANGED <<dbVars, now, req, client, send, closed, pump, register,
                   unregister, clients, userIndex, auctionRooms, chatRooms,
                   messages,
                   hookVars>>

\* readPump: BroadcastToChat, after RUnlock: the sends. Nothing recovers a
\* panic here.
ChatFanOut(c) ==
    /\ frame[c].pc = "fanOut"
    /\ send' = FanOut(send, frame[c].room,
                      ChatMsg(frame[c].id, client[c].RoomID, client[c].ID))
    /\ frame' = [frame EXCEPT ![c] =
                   IF Panics(frame[c].room)
                   THEN [pc |-> "panic", id |-> 0, room |-> << >>]
                   ELSE NoFrame]
    /\ UNCHANGED <<dbVars, now, req, hubCalls, client, closed, pump, register,
                   unregister, clients, userIndex, auctionRooms, chatRooms,
                   messages,
                   hookVars>>

\* ChatHandler.SendMessage up to the INSERT: the membership check, the body
\* (present: body or image_url is there), the sender's name, the INSERT (ok).
SendMessage(p, callerID, rid, f, ok) ==
    /\ Idle(p)
    /\ IF Member(rid, callerID) /\ f.json /\ (f.body \/ f.image_url) /\ ok
          /\ Len(messages) < MaxMessages
       THEN /\ messages' = Append(messages, MessageRow(rid, callerID, f))
            /\ req' = [req EXCEPT ![p] =
                         [IdleReq EXCEPT !.op = "SendMessage", !.pc = "broadcast",
                                         !.user = callerID, !.room_id = rid,
                                         !.msg = Len(messages) + 1]]
       ELSE UNCHANGED <<messages, req>>
    /\ UNCHANGED <<dbVars, now, hubCalls, client, send, closed, pump, register,
                   unregister, clients, userIndex, auctionRooms, chatRooms,
                   frame,
                   hookVars>>

\* SendMessage: BroadcastToChat, under RLock.
SendMessageBroadcast(p) ==
    /\ req[p].op = "SendMessage" /\ req[p].pc = "broadcast"
    /\ hubCalls' = Append(hubCalls,
                          ChatMsg(req[p].msg, req[p].room_id, req[p].user))
    /\ req' = [req EXCEPT ![p].pc = "fanOut",
                          ![p].room = At(chatRooms, req[p].room_id)]
    /\ UNCHANGED <<dbVars, now, hubVars>>

\* SendMessage: BroadcastToChat, after RUnlock, and the response.
SendMessageFanOut(p) ==
    /\ req[p].op = "SendMessage" /\ req[p].pc = "fanOut"
    /\ send' = FanOut(send, req[p].room,
                      ChatMsg(req[p].msg, req[p].room_id, req[p].user))
    /\ Return(p)
    /\ UNCHANGED <<dbVars, now, hubCalls, client, closed, pump, register,
                   unregister, clients, userIndex, auctionRooms, chatVars,
             hookVars>>

\* ChatHandler.GetMessages: the membership check and the query.
GetMessages(p, callerID, rid) ==
    /\ Idle(p)
    /\ IF Member(rid, callerID)
       THEN req' = [req EXCEPT ![p] =
                      [IdleReq EXCEPT !.op = "GetMessages", !.pc = "reply",
                                      !.user = callerID, !.room_id = rid]]
       ELSE UNCHANGED req
    /\ UNCHANGED <<dbVars, now, hubCalls, hubVars>>

\* GetMessages: the room's rows are written to the caller.
GetMessagesReply(p) ==
    /\ req[p].op = "GetMessages" /\ req[p].pc = "reply"
    /\ Return(p)
    /\ UNCHANGED <<dbVars, now, hubCalls, hubVars>>

\* The bidding handlers together with the Hub at the grain of its lock: the
\* auction is the seeded one, whose highest bidder u2 can be displaced.
InitHub ==
    /\ InitLedger
    /\ auctions = [a \in {"a2"} |-> SeedAuction]
    /\ bids = [a \in {"a2"} |-> SeedBids]
    /\ bid_holds = [a \in {"a2"} |-> << >>]
    /\ settlements = [a \in {"a2"} |-> NoRow]

NextHub ==
    \/ \E c \in Conns, u \in ConnUsers, a \in AuctionIds \cup {NoAuction} :
         NewClient(c, u, a, NoRoom)
    \/ RunRegister
    \/ \E c \in Conns : ReadPumpExit(c)
    \/ RunUnregister
    \/ \E c \in Conns : writePump(c)
    \/ \E c \in Conns : writePumpFail(c)
    \/ \E p \in Procs :
         \/ PlaceBidLockAuction(p)
         \/ PlaceBidLockBidder(p)
         \/ PlaceBidLockPrev(p)
         \/ PlaceBidBroadcast(p)
         \/ PlaceBidFanOut(p)
         \/ PlaceBidSendToUser(p)
         \/ PlaceBidAlert(p)
         \/ Abort(p)

SpecHub == InitHub /\ [][NextHub]_vars

\* The chat with the Hub: connections of the chat's users in the room or in
\* none, their frames, and the two HTTP handlers.
NextChat ==
    \/ ~Crashed /\ \E c \in Conns, u \in ChatUsers \cup {NoUser},
                      r \in ChatRoomIds \cup {NoRoom} :
                        NewClient(c, u, NoAuction, r)
    \/ ~Crashed /\ RunRegister
    \/ ~Crashed /\ \E c \in Conns : ReadPumpExit(c)
    \/ ~Crashed /\ RunUnregister
    \/ ~Crashed /\ \E c \in Conns : writePump(c)
    \/ ~Crashed /\ \E c \in Conns : writePumpFail(c)
    \/ ~Crashed /\ \E c \in Conns, f \in Frames : ReadMessage(c, f)
    \/ ~Crashed /\ \E c \in Conns, ok \in BOOLEAN : HandleFrame(c, ok)
    \/ ~Crashed /\ \E c \in Conns : ChatBroadcast(c)
    \/ ~Crashed /\ \E c \in Conns : ChatFanOut(c)
    \/ ~Crashed /\ \E p \in Procs, u \in ChatUsers, r \in ChatRoomIds,
                      f \in Frames, ok \in BOOLEAN : SendMessage(p, u, r, f, ok)
    \/ ~Crashed /\ \E p \in Procs : SendMessageBroadcast(p)
    \/ ~Crashed /\ \E p \in Procs : SendMessageFanOut(p)
    \/ ~Crashed /\ \E p \in Procs, u \in ChatUsers, r \in ChatRoomIds :
                        GetMessages(p, u, r)
    \/ ~Crashed /\ \E p \in Procs : GetMessagesReply(p)

SpecChat == InitHub /\ [][NextChat]_vars

-----------------------------------------------------------------------------
Next ==
    \/ Tick
    \/ \E p \in Procs :
         \/ PlaceBidLockAuction(p)
         \/ PlaceBidLockBidder(p)
         \/ PlaceBidLockPrev(p)
         \/ PlaceBidNotify(p)
         \/ endAuctionIfExpired(p)
         \/ ApproveLockSettlement(p)
         \/ ApproveLockSeller(p)
         \/ DepositCheck(p)
         \/ DepositLockUser(p)
         \/ Withdraw(p)
         \/ Abort(p)

Spec == Init /\ [][Next]_vars

\* Two of the seeded auctions, each with the other's bidder as a user who can
\* bid on it: a2 (highest bidder u2) and a3 (seller u3, highest bidder u1).
InitLocks ==
    /\ InitLedger
    /\ auctions = [a \in {"a2", "a3"} |->
                     IF a = "a2" THEN SeedAuction ELSE Auction("u3", 1, 1, "u1", 0)]
    /\ bids = [a \in {"a2", "a3"} |->
                 IF a = "a2" THEN SeedBids ELSE << [user_id |-> "u1", amount |-> 1] >>]
    /\ bid_holds = [a \in {"a2", "a3"} |-> << >>]
    /\ settlements = [a \in {"a2", "a3"} |-> NoRow]

\* The transactions that take more than one row lock, and Withdraw.
NextLocks ==
    \/ Tick
    \/ \E p \in Procs :
         \/ PlaceBidLockAuction(p)
         \/ PlaceBidLockBidder(p)
         \/ PlaceBidLockPrev(p)
         \/ PlaceBidNotify(p)
         \/ endAuctionIfExpired(p)
         \/ ApproveLockSettlement(p)
         \/ ApproveLockSeller(p)
         \/ Withdraw(p)
         \/ Abort(p)

SpecLocks == InitLocks /\ [][NextLocks]_vars

-----------------------------------------------------------------------------
(* The browser: useAuctionSocket and useChatSocket, which are the same      *)
(* machine.  A socket carries the effect run whose connect() made it: its   *)
(* handlers and the timer its onclose sets call that run's connect().       *)

\* The socket connect() makes next.
NextSocket == CHOOSE s \in Sockets :
    sockets[s] = NoSocket /\ \A t \in 1 .. s - 1 : sockets[t] # NoSocket

CanConnect == \E s \in Sockets : sockets[s] = NoSocket

\* connect() of effect run g on the sockets ss: const ws = new WebSocket(url);
\* wsRef.current = ws
connect(ss, g) ==
    /\ sockets' = [ss EXCEPT ![NextSocket] =
                     [readyState |-> "CONNECTING", effect |-> g, timer |-> "none"]]
    /\ wsRef' = NextSocket

\* return () => { retryTimer.current && clearTimeout(retryTimer.current);
\*                wsRef.current?.close() }
cleanup(ss) ==
    [s \in Sockets |->
        IF s = retryTimer /\ ss[s].timer = "pending"
        THEN [ss[s] EXCEPT !.timer = "cleared"]
        ELSE IF s = wsRef /\ ss[s].readyState \in {"CONNECTING", "OPEN"}
        THEN [ss[s] EXCEPT !.readyState = "CLOSING"]
        ELSE ss[s]]

\* useEffect(() => { connect(); return cleanup }, [connect]): the mount, and
\* a change of auction, room or user, which runs the cleanup of the run in
\* force and then the effect again.
useEffect ==
    /\ effect.run < MaxEffects
    /\ effect.run > 0 => effect.active
    /\ CanConnect
    /\ effect' = [run |-> effect.run + 1, active |-> TRUE]
    /\ connect(IF effect.active THEN cleanup(sockets) ELSE sockets, effect.run + 1)
    /\ UNCHANGED <<retryCount, retryTimer>>
    /\ UNCHANGED <<dbVars, now, req, hubCalls, client, send, closed, pump,
                   register, unregister, clients, userIndex, auctionRooms,
                   chatVars>>

\* The component is unmounted: the cleanup of the run in force.
unmount ==
    /\ effect.active
    /\ effect' = [effect EXCEPT !.active = FALSE]
    /\ sockets' = cleanup(sockets)
    /\ UNCHANGED <<wsRef, retryCount, retryTimer>>
    /\ UNCHANGED <<dbVars, now, req, hubCalls, client, send, closed, pump,
                   register, unregister, clients, userIndex, auctionRooms,
                   chatVars>>

\* ws.onopen = () => { setIsConnected(true); retryCount.current = 0 }
onopen(s) ==
    /\ sockets[s].readyState = "CONNECTING"
    /\ sockets' = [sockets EXCEPT ![s].readyState = "OPEN"]
    /\ retryCount' = 0
    /\ UNCHANGED <<wsRef, retryTimer, effect>>
    /\ UNCHANGED <<dbVars, now, req, hubCalls, client, send, closed, pump,
                   register, unregister, clients, userIndex, auctionRooms,
                   chatVars>>

\* The socket's close event: the connection failed (onerror closes it), was
\* lost, or had been closed by the cleanup.
\* ws.onclose = () => { if (retryCount.current < 5) retryTimer.current =
\*                        setTimeout(() => { retryCount.current++; connect() }) }
onclose(s) ==
    /\ sockets[s].readyState \in {"CONNECTING", "OPEN", "CLOSING"}
    /\ IF retryCount < MaxRetries
       THEN /\ sockets' = [sockets EXCEPT ![s].readyState = "CLOSED",
                                          ![s].timer = "pending"]
            /\ retryTimer' = s
       ELSE /\ sockets' = [sockets EXCEPT ![s].readyState = "CLOSED"]
            /\ UNCHANGED retryTimer
    /\ UNCHANGED <<wsRef, retryCount, effect>>
    /\ UNCHANGED <<dbVars, now, req, hubCalls, client, send, closed, pump,
                   register, unregister, clients, userIndex, auctionRooms,
                   chatVars>>

\* The timer that the onclose of socket s set fires:
\* retryCount.current++; connect()
retry(s) ==
    /\ sockets[s].timer = "pending"
    /\ CanConnect
    /\ retryCount' = retryCount + 1
    /\ connect([sockets EXCEPT ![s].timer = "fired"], sockets[s].effect)
    /\ UNCHANGED <<retryTimer, effect>>
    /\ UNCHANGED <<dbVars, now, req, hubCalls, client, send, closed, pump,
                   register, unregister, clients, userIndex, auctionRooms,
                   chatVars>>

NextHook ==
    \/ useEffect
    \/ unmount
    \/ \E s \in Sockets : onopen(s)
    \/ \E s \in Sockets : onclose(s)
    \/ \E s \in Sockets : retry(s)

SpecHook == InitHub /\ [][NextHook]_vars

-----------------------------------------------------------------------------
(* Quantities the properties speak of. *)

RECURSIVE SumRows(_, _)
\* The sum of amount * copies over the rows in the set rs of the bag B.
SumRows(B, rs) ==
    IF rs = {} THEN 0
    ELSE LET t == CHOOSE x \in rs : TRUE
         IN  t.amount * CopiesIn(t, B) + SumRows(B, rs \ {t})

\* The journal rows of user u with the given type, summed.
JournalSum(B, u, type) ==
    SumRows(B, {t \in BagToSet(B) : t.user_id = u /\ t.type = type})

\* The indices of the holds of user u on auction a whose status is in sts.
HoldsOf(a, u, sts) ==
    {i \in 1 .. Len(bid_holds[a]) :
        bid_holds[a][i].user_id = u /\ bid_holds[a][i].status \in sts}

RECURSIVE HeldOn(_, _, _)
\* What user u has in SOFT or HARD holds on the auctions in as.
HeldOn(as, u, sts) ==
    IF as = {} THEN 0
    ELSE LET a == CHOOSE x \in as : TRUE
         IN  SumAmounts(bid_holds[a], HoldsOf(a, u, sts)) + HeldOn(as \ {a}, u, sts)

RECURSIVE SettledFor(_, _, _)
\* The amounts of the COMPLETED settlements on the auctions in as in which
\* user u has the given role ("winner_id" or "seller_id").
SettledFor(as, u, role) ==
    IF as = {} THEN 0
    ELSE LET a == CHOOSE x \in as : TRUE
         IN  (IF /\ settlements[a] # NoRow
                 /\ settlements[a].status = "COMPLETED"
                 /\ settlements[a][role] = u
              THEN settlements[a].amount ELSE 0)
             + SettledFor(as \ {a}, u, role)

Deposited(u) ==
    JournalSum(transactions, u, "DEPOSIT") - JournalSum(SeedTransactions, u, "DEPOSIT")

Withdrawn(u) ==
    JournalSum(transactions, u, "WITHDRAW") - JournalSum(SeedTransactions, u, "WITHDRAW")

-----------------------------------------------------------------------------
(* C1 *)

\* C1: after any interleaving of PlaceBid, endAuctionIfExpired,
\* ApproveSettlement, Deposit and Withdraw, every wallet balance is >= 0.
C1_BalancesNonNegative == \A u \in Users : wallet_balance[u] >= 0

\* A user who has withdrawn and holds a bid is left with exactly nothing.
C1_Witness ==
    \E u \in Users :
        /\ wallet_balance[u] = 0
        /\ Withdrawn(u) > 0
        /\ HeldOn(AuctionIds, u, {"SOFT", "HARD"}) > 0

-----------------------------------------------------------------------------
(* C2 *)

\* C2: money is conserved between wallets and holds: for every user the
\* balance is the initial balance, less the user's SOFT and HARD holds, less
\* what completed settlements took from the user as winner, plus what they
\* paid the user as seller, plus deposits, less withdrawals.
C2_MoneyConserved ==
    \A u \in Users :
        wallet_balance[u] =
            SeedBalance(u)
              - HeldOn(AuctionIds, u, {"SOFT", "HARD"})
              - SettledFor(AuctionIds, u, "winner_id")
              + SettledFor(AuctionIds, u, "seller_id")
              + Deposited(u) - Withdrawn(u)

-----------------------------------------------------------------------------
(* C3 *)

\* C3: for every (auction, user) at most one hold is SOFT or HARD.
C3_AtMostOneLiveHold ==
    \A a \in AuctionIds, u \in Users :
        Cardinality(HoldsOf(a, u, {"SOFT", "HARD"})) <= 1

-----------------------------------------------------------------------------
(* C4 *)

\* The last row of the bids of auction a.
LastBid(a) == bids[a][Len(bids[a])]

\* A step that commits a bid on auction a.
BidCommits(a) == bids'[a] # bids[a]

\* C4: while an auction is ACTIVE its current highest bid never decreases,
\* every committed PlaceBid sets it to a strictly greater amount, and on an
\* auction that takes bids an amount equal to or below the current highest bid
\* is answered BidTooLow.
C4_HighBidStrictlyIncreases ==
    [][\A a \in AuctionIds :
          auctions[a].status = "ACTIVE" =>
            /\ auctions'[a].current_highest_bid >= auctions[a].current_highest_bid
            /\ BidCommits(a) =>
                 auctions'[a].current_highest_bid > auctions[a].current_highest_bid
            /\ ~BidCommits(a) =>
                 auctions'[a].current_highest_bid = auctions[a].current_highest_bid
            /\ \A amt \in Amounts :
                 (/\ AuctionOpen(auctions[a].status, auctions[a].end_time, now)
                  /\ amt <= auctions[a].current_highest_bid)
                    => PlaceBidAuctionCheck(a, amt) = "BidTooLow"]_vars

\* An ACTIVE auction on which a bid has been raised over an earlier one, and a
\* request for the same amount again would be a tie.
C4_Witness ==
    \E a \in AuctionIds :
        /\ auctions[a].status = "ACTIVE"
        /\ Len(bids[a]) >= 2
        /\ LastBid(a).amount = auctions[a].current_highest_bid
        /\ auctions[a].current_highest_bid \in Amounts
        /\ PlaceBidAuctionCheck(a, auctions[a].current_highest_bid) = "BidTooLow"

-----------------------------------------------------------------------------
(* C5 *)

\* C5: an ENDED auction with a highest bidder H has one settlement row; while
\* it is PENDING exactly one hold (auction, H) is HARD, and once it is
\* COMPLETED exactly one hold (auction, H) is SETTLED.
C5_OneHoldPerEndedAuction ==
    \A a \in AuctionIds :
        (auctions[a].status = "ENDED" /\ auctions[a].highest_bidder_id # NoUser) =>
            /\ settlements[a] # NoRow
            /\ settlements[a].status = "PENDING" =>
                 Cardinality(HoldsOf(a, auctions[a].highest_bidder_id, {"HARD"})) = 1
            /\ settlements[a].status = "COMPLETED" =>
                 Cardinality(HoldsOf(a, auctions[a].highest_bidder_id, {"SETTLED"})) = 1

-----------------------------------------------------------------------------
(* C6 *)

\* TRANSFER rows recorded as credits: those of the seller of the auction the
\* row refers to.
TransferCredits(B, u) ==
    SumRows(B, {t \in BagToSet(B) :
                  /\ t.user_id = u /\ t.type = "TRANSFER"
                  /\ t.reference \in AuctionIds
                  /\ auctions[t.reference].seller_id = u})

\* DEPOSIT - WITHDRAW + REFUND - BID_HOLD + TRANSFER credits of user u in B.
JournalBalance(B, u) ==
    JournalSum(B, u, "DEPOSIT") - JournalSum(B, u, "WITHDRAW")
      + JournalSum(B, u, "REFUND") - JournalSum(B, u, "BID_HOLD")
      + TransferCredits(B, u)

\* C6: for every user the journal sum less its initial value equals the wallet
\* balance less its initial value.
C6_JournalMatchesBalance ==
    \A u \in Users :
        JournalBalance(transactions, u) - JournalBalance(SeedTransactions, u)
            = wallet_balance[u] - SeedBalance(u)

\* A user has been outbid and refunded, a settlement has paid the seller, and
\* a deposit and a withdrawal have been made.
C6_Witness ==
    /\ \E u \in Users : JournalSum(transactions, u, "REFUND") > 0
    /\ \E u \in Users : TransferCredits(transactions, u) > 0
    /\ \E u \in Users : Deposited(u) > 0
    /\ \E u \in Users : Withdrawn(u) > 0

-----------------------------------------------------------------------------
(* C7 *)

RECURSIVE CountRows(_, _)
\* The number of copies in the bag B of the rows in the set rs.
CountRows(B, rs) ==
    IF rs = {} THEN 0
    ELSE LET t == CHOOSE x \in rs : TRUE
         IN  CopiesIn(t, B) + CountRows(B, rs \ {t})

\* The number of DEPOSIT rows that carry the reference ref.
DepositRows(ref) ==
    CountRows(transactions,
              {t \in BagToSet(transactions) : t.type = "DEPOSIT" /\ t.reference = ref})

\* C7: of the Deposit requests that carry one reference, run one after the
\* other or concurrently, exactly one credits a balance and appends a DEPOSIT
\* row: no reference has two DEPOSIT rows.
C7_OneDepositPerReference == \A ref \in Refs : DepositRows(ref) <= 1

-----------------------------------------------------------------------------
(* C8 *)

\* Two PlaceBid requests on one auction, both committed and neither answered.
BothCommitted(p, q) ==
    /\ p # q
    /\ req[p].op = "PlaceBid" /\ Committed(p)
    /\ req[q].op = "PlaceBid" /\ Committed(q)
    /\ req[p].auction = req[q].auction

\* C8 as stated: of two PlaceBid requests in flight together on one auction
\* exactly one commits.
C8_ExactlyOneCommits == \A p, q \in Procs : ~BothCommitted(p, q)

\* The committed rows of auction a show whole bids: the auction row names the
\* last bid, and every bid placed through PlaceBid has its hold.
WholeBids(a) ==
    /\ bids[a] # << >> =>
         /\ LastBid(a).amount = auctions[a].current_highest_bid
         /\ LastBid(a).user_id = auctions[a].highest_bidder_id
    /\ bids[a] = << >> =>
         /\ auctions[a].current_highest_bid = 0
         /\ auctions[a].highest_bidder_id = NoUser
    /\ \A i \in 1 .. Len(bid_holds[a]) :
         LET j == i + (Len(bids[a]) - Len(bid_holds[a]))
         IN  /\ j \in 1 .. Len(bids[a])
             /\ bids[a][j].user_id = bid_holds[a][i].user_id
             /\ bids[a][j].amount = bid_holds[a][i].amount

\* C8 amended: bids on one auction commit one at a time in the order of the
\* auction row lock; each commit is a whole bid above the one before it, so
\* of X and X+e the higher commits whichever comes first, and the lower
\* commits only before the higher; every committed state shows whole bids.
C8_CommitsSerialised ==
    /\ [](\A a \in AuctionIds : WholeBids(a))
    /\ [][\A a \in AuctionIds :
            BidCommits(a) =>
              /\ \E p \in Procs :
                   /\ req[p].op = "PlaceBid" /\ AuctionRow(a) \in req[p].locks
                   /\ req'[p].locks = {}
                   /\ bids'[a] = Append(bids[a],
                         [user_id |-> req[p].user, amount |-> req[p].amount])
                   /\ req[p].prevBid = auctions[a].current_highest_bid
                   /\ req[p].prev = auctions[a].highest_bidder_id
              /\ \A i \in 1 .. Len(bids[a]) :
                   bids[a][i].amount < LastBid(a)'.amount]_vars

\* One bid is committed and not yet answered while a higher bid on the same
\* auction holds the auction row.
C8_Witness ==
    \E p, q \in Procs :
        /\ req[p].op = "PlaceBid" /\ Committed(p)
        /\ req[q].op = "PlaceBid" /\ AuctionRow(req[p].auction) \in req[q].locks
        /\ req[q].amount > req[p].amount

-----------------------------------------------------------------------------
(* C9 *)

\* caller is the party of the settlement of auction a whose approval is still
\* missing, and the other party's approval is committed: caller's call is the
\* second of the two.
SecondApproval(a, caller) ==
    /\ settlements[a] # NoRow
    /\ settlements[a].winner_id # settlements[a].seller_id
    /\ \/ /\ PartyOf(settlements[a], caller) = "winner"
          /\ ~settlements[a].winner_approved /\ settlements[a].seller_approved
       \/ /\ PartyOf(settlements[a], caller) = "seller"
          /\ ~settlements[a].seller_approved /\ settlements[a].winner_approved

\* C9 as stated: the second of the two calls is answered with the
\* already-completed Conflict.
C9_SecondCallConflict ==
    \A a \in AuctionIds, caller \in Users :
        SecondApproval(a, caller) => ApproveCheck(a, caller) = "AlreadyCompleted"

\* The number of TRANSFER rows of user u that refer to auction a.
TransferRows(a, u) ==
    CountRows(transactions,
              {t \in BagToSet(transactions) :
                  t.type = "TRANSFER" /\ t.reference = a /\ t.user_id = u})

\* A step that completes the settlement of auction a.
Completes(a) ==
    /\ settlements'[a] # NoRow /\ settlements'[a].status = "COMPLETED"
    /\ settlements[a] = NoRow \/ settlements[a].status # "COMPLETED"

\* C9 amended: the settlement goes to COMPLETED at most once, in the call
\* that finds the other party's approval committed (the second call, which
\* is answered with the completed settlement); that step credits the seller
\* the settlement amount, and no other step credits it; a call is answered
\* with the already-completed Conflict exactly when it finds the settlement
\* COMPLETED.
C9_CompletedOnceBySecondCall ==
    /\ [](\A a \in AuctionIds :
            /\ settlements[a] # NoRow =>
                 /\ TransferRows(a, settlements[a].seller_id)
                      = IF settlements[a].status = "COMPLETED" THEN 1 ELSE 0
                 /\ \A caller \in {settlements[a].winner_id, settlements[a].seller_id} :
                      ApproveCheck(a, caller) = "AlreadyCompleted"
                        <=> settlements[a].status = "COMPLETED"
            /\ settlements[a] = NoRow =>
                 \A u \in Users : TransferRows(a, u) = 0)
    /\ [][\A a \in AuctionIds :
            /\ Completes(a) =>
                 \E p \in Procs :
                    /\ req[p].op = "Approve" /\ req[p].auction = a
                    /\ SecondApproval(a, req[p].user)
                    /\ req'[p] = IdleReq
                    /\ wallet_balance' =
                         [wallet_balance EXCEPT ![settlements[a].seller_id] =
                             @ + settlements[a].amount]
            /\ (settlements[a] # NoRow /\ settlements[a].status = "COMPLETED") =>
                 settlements'[a] = settlements[a]
            /\ ~Completes(a) =>
                 \A u \in Users : TransferRows(a, u)' = TransferRows(a, u)]_vars

\* The settlement is COMPLETED, the seller has the amount, and a further call
\* by a party is answered with the already-completed Conflict.
C9_Witness ==
    \E a \in AuctionIds :
        /\ settlements[a] # NoRow /\ settlements[a].status = "COMPLETED"
        /\ settlements[a].winner_id # settlements[a].seller_id
        /\ TransferRows(a, settlements[a].seller_id) = 1
        /\ ApproveCheck(a, settlements[a].seller_id) = "AlreadyCompleted"

-----------------------------------------------------------------------------
(* C10 *)

\* The message m names a committed bid: a row of bids with its auction,
\* amount and bidder.
NamesCommittedBid(m) ==
    /\ m.auction_id \in AuctionIds
    /\ \E j \in 1 .. Len(bids[m.auction_id]) :
         /\ bids[m.auction_id][j].user_id = m.bidder_id
         /\ bids[m.auction_id][j].amount = m.amount

\* C10: every broadcast_new_bid and outbid_alert handed to the Hub names a
\* committed bid with its auction, amount and bidder; the Hub is called only
\* by a PlaceBid whose transaction has committed, and a PlaceBid that ends
\* without committing hands nothing to the Hub.
C10_HubAfterCommit ==
    /\ [](\A i \in 1 .. Len(hubCalls) :
            /\ hubCalls[i].type \in {"broadcast_new_bid", "outbid_alert"}
            /\ NamesCommittedBid(hubCalls[i]))
    /\ [][/\ hubCalls' # hubCalls =>
               \E p \in Procs :
                  /\ req[p].op = "PlaceBid" /\ req[p].pc = "notify"
                  /\ req'[p] = IdleReq
                  /\ hubCalls'[Len(hubCalls) + 1] =
                        BidMsg(req[p].auction, req[p].amount, req[p].user)
          /\ \A p \in Procs :
               (req[p].op = "PlaceBid" /\ InTx(p) /\ req'[p] = IdleReq) =>
                  /\ hubCalls' = hubCalls
                  /\ UNCHANGED dbVars]_vars

\* The Hub has been handed an outbid_alert, while another PlaceBid is in its
\* transaction and nothing of that bid has been handed to the Hub.
C10_Witness ==
    /\ \E i \in 1 .. Len(hubCalls) : hubCalls[i].type = "outbid_alert"
    /\ \E p \in Procs :
         /\ req[p].op = "PlaceBid" /\ InTx(p)
         /\ \A i \in 1 .. Len(hubCalls) : hubCalls[i].amount # req[p].amount

-----------------------------------------------------------------------------
(* C11 *)

\* Connection c is a live, registered connection of user u watching auction a,
\* with room in its buffer.
Reachable(c, u, a) ==
    /\ c \in clients /\ ~closed[c] /\ pump[c] = "running"
    /\ client[c].ID = u /\ client[c].AuctionID = a
    /\ Len(send[c]) < SendCap

\* The committed bid in slot p displaces another user.
DisplacingBid(p) ==
    req[p].op = "PlaceBid" /\ Displaces(req[p].prev, req[p].user)

\* For the connections in cs: in the step that makes BroadcastToAuction's
\* sends, a reachable connection of the displaced user that was in the room
\* gets the broadcast_new_bid and nothing else; in the step where SendToUser
\* looks the displaced user up, a registered connection of theirs is found; in
\* the step that makes SendToUser's send, it gets the outbid_alert with the
\* previous high bid and the new amount, and nothing else.
NotifiesDisplaced(cs) ==
    \A p \in Procs : \A c \in cs :
        LET a == req[p].auction
            A == req[p].prev
        IN  DisplacingBid(p) /\ Reachable(c, A, a) =>
              /\ (req[p].pc = "fanOut" /\ req'[p].pc # "fanOut"
                  /\ \E i \in 1 .. Len(req[p].room) : req[p].room[i] = c)
                    => send'[c] = Append(send[c],
                                         BidMsg(a, req[p].amount, req[p].user))
              /\ (req[p].pc = "sendToUser" /\ req'[p].pc # "sendToUser")
                    => /\ req'[p].pc = "alert"
                       /\ req'[p].target \in clients
                       /\ client[req'[p].target].ID = A
              /\ (req[p].pc = "alert" /\ req'[p].pc # "alert"
                  /\ req[p].target = c)
                    => send'[c] = Append(send[c],
                           [type |-> "outbid_alert", auction_id |-> a,
                            amount |-> req[p].amount,
                            bidder_id |-> req[p].user,
                            your_bid |-> req[p].prevBid, to |-> A])

\* C11 as stated: when a bid by B commits on an auction whose previous highest
\* bidder is another user A, every live registered connection of A that
\* watches the auction and has room in its buffer is enqueued one
\* broadcast_new_bid and one outbid_alert (your_bid the previous high bid,
\* new_high_bid B's amount).
C11_DisplacedUserNotified == [][NotifiesDisplaced(Conns)]_vars

\* The connections of users who have opened one connection only.
OnlyConns ==
    {c \in Conns : \A d \in Conns \ {c} : client[d].ID # client[c].ID}

\* The same, for the users who have only ever opened one connection.
C11_SingleConnectionNotified == [][NotifiesDisplaced(OnlyConns)]_vars

\* The rest of C11: an outbid_alert is handed to the Hub only for a bid that
\* displaces another user; nothing is enqueued to a connection that is not
\* registered; the Hub's steps leave the database alone.
C11_AlertOnlyOnDisplacement ==
    /\ [](\A p \in Procs :
            req[p].pc \in {"sendToUser", "alert"} => DisplacingBid(p))
    /\ [][/\ \A c \in Conns :
                Len(send'[c]) > Len(send[c]) =>
                  /\ c \in clients \/ (\E p \in Procs : \E i \in 1 .. Len(req[p].room) :
                                          req[p].room[i] = c)
                                    \/ (\E p \in Procs : req[p].target = c)
                  /\ ~closed[c]
          /\ (\E p \in Procs :
                /\ req[p].pc \in {"notify", "fanOut", "sendToUser", "alert"}
                /\ req'[p] # req[p])
                => UNCHANGED dbVars]_vars

\* The displaced user's only connection has been sent the broadcast and the
\* handler has found it for the alert.
C11_Witness ==
    \E p \in Procs :
        /\ DisplacingBid(p) /\ req[p].pc = "alert"
        /\ Reachable(req[p].target, req[p].prev, req[p].auction)
        /\ req[p].target \in OnlyConns

\* The displaced user has a reachable connection on the auction and the
\* handler is about to look them up, but userIndex has no entry for them.
C11_Unreachable ==
    \E p \in Procs : \E c \in Conns :
        /\ DisplacingBid(p) /\ req[p].pc = "sendToUser"
        /\ Reachable(c, req[p].prev, req[p].auction)
        /\ userIndex[req[p].prev] = NoConn

-----------------------------------------------------------------------------
(* C12 *)

\* The PlaceBid in slot p ends in this step with an error: it leaves its
\* transaction without having committed.
BidFails(p) == req[p].op = "PlaceBid" /\ InTx(p) /\ req'[p] = IdleReq

\* C12: a PlaceBid that ends in an error leaves users, auctions, bids, holds
\* and the journal as they were, and hands nothing to the Hub; a request that
\* is answered by the checks on the auction row never enters a transaction's
\* writes; a bidder whose balance is below the amount ends with an error; and
\* bids are written only by a request that commits.
C12_FailedBidChangesNothing ==
    [][/\ \A p \in Procs :
            /\ BidFails(p) => UNCHANGED <<dbVars, hubCalls>>
            /\ (/\ req[p].op = "PlaceBid" /\ req[p].pc = "lockBidder"
                /\ wallet_balance[req[p].user] < req[p].amount
                /\ req'[p] # req[p]) => BidFails(p)
            /\ (Idle(p) /\ req'[p].op = "PlaceBid") =>
                 /\ PlaceBidAuctionCheck(req'[p].auction, req'[p].amount) = ""
                 /\ UNCHANGED dbVars
       /\ bids' # bids =>
            \E p \in Procs :
               /\ req[p].op = "PlaceBid" /\ InTx(p)
               /\ req'[p].pc = "notify"
               /\ ~(wallet_balance[req[p].user] < req[p].amount)]_vars

\* A PlaceBid holds the auction row and the bidder cannot pay the amount.
C12_Witness ==
    \E p \in Procs :
        /\ req[p].op = "PlaceBid" /\ req[p].pc = "lockBidder"
        /\ wallet_balance[req[p].user] < req[p].amount
        /\ bid_holds[req[p].auction] # << >>

-----------------------------------------------------------------------------
(* C13 *)

\* A step that ends auction a.
Ends(a) == auctions[a].status = "ACTIVE" /\ auctions'[a].status = "ENDED"

\* C13: endAuctionIfExpired acts at most once on an auction: an invocation
\* that finds status ENDED returns at its first check, and once the auction
\* is ENDED its status stays, no hold is promoted, released or added, no
\* REFUND is written for it, and its settlement row is not inserted again;
\* the settlement row is inserted only by the step that ends the auction.
C13_EndsAtMostOnce ==
    /\ [](\A a \in AuctionIds :
            auctions[a].status = "ENDED" =>
               ~Expired(auctions[a].status, auctions[a].end_time, now))
    /\ [][\A a \in AuctionIds :
            /\ auctions[a].status = "ENDED" =>
                 /\ auctions'[a].status = "ENDED"
                 /\ Len(bid_holds'[a]) = Len(bid_holds[a])
                 /\ \A i \in 1 .. Len(bid_holds[a]) :
                      \/ bid_holds'[a][i] = bid_holds[a][i]
                      \/ /\ bid_holds[a][i].status = "HARD"
                         /\ bid_holds'[a][i] = [bid_holds[a][i] EXCEPT !.status = "SETTLED"]
                 /\ \A u \in Users :
                      JournalSum(transactions', u, "REFUND")
                        = JournalSum(transactions, u, "REFUND")
                 /\ (settlements[a] = NoRow) = (settlements'[a] = NoRow)
            /\ (settlements[a] = NoRow /\ settlements'[a] # NoRow) => Ends(a)
            /\ settlements[a] # NoRow =>
                 /\ settlements'[a] # NoRow
                 /\ settlements'[a].winner_id = settlements[a].winner_id
                 /\ settlements'[a].seller_id = settlements[a].seller_id
                 /\ settlements'[a].amount = settlements[a].amount]_vars

\* The auction is ENDED with a settlement, time is past its end, so a further
\* invocation finds it so.
C13_Witness ==
    \E a \in AuctionIds :
        /\ auctions[a].status = "ENDED"
        /\ now > auctions[a].end_time
        /\ settlements[a] # NoRow
        /\ \E i \in 1 .. Len(bid_holds[a]) : bid_holds[a][i].status = "HARD"

-----------------------------------------------------------------------------
(* C14 *)

\* The holds of auction a after its end with winner w: w's SOFT holds HARD,
\* the SOFT holds of the others RELEASED, the rest as they were.
HoldsAfterEnd(a, w) ==
    [i \in 1 .. Len(bid_holds[a]) |->
        IF bid_holds[a][i].status # "SOFT" THEN bid_holds[a][i]
        ELSE IF bid_holds[a][i].user_id = w
        THEN [bid_holds[a][i] EXCEPT !.status = "HARD"]
        ELSE [bid_holds[a][i] EXCEPT !.status = "RELEASED"]]

\* What the SOFT holds of user u on auction a amount to when u is not w.
RefundDue(a, u, w) ==
    IF u = w THEN 0 ELSE SumAmounts(bid_holds[a], HoldsOf(a, u, {"SOFT"}))

\* C14: an ACTIVE auction past its end time with highest bidder W at amount M
\* is one that endAuctionIfExpired ends; the step that ends it is taken after
\* the end time and, in one transaction, sets status ENDED, turns W's SOFT
\* hold HARD, releases every other user's SOFT hold with its amount credited
\* back and journalled as REFUND, and inserts the PENDING settlement
\* (W, seller, M); a read after that step shows ENDED.
C14_EndWithWinner ==
    /\ [](\A a \in AuctionIds :
            (auctions[a].status = "ACTIVE" /\ now > auctions[a].end_time)
               <=> Expired(auctions[a].status, auctions[a].end_time, now))
    /\ [][\A a \in AuctionIds :
            (Ends(a) /\ auctions[a].highest_bidder_id # NoUser) =>
               LET w == auctions[a].highest_bidder_id IN
               /\ now > auctions[a].end_time
               /\ auctions'[a] = [auctions[a] EXCEPT !.status = "ENDED"]
               /\ bid_holds'[a] = HoldsAfterEnd(a, w)
               /\ \A u \in Users :
                    /\ wallet_balance'[u] = wallet_balance[u] + RefundDue(a, u, w)
                    /\ JournalSum(transactions', u, "REFUND")
                         = JournalSum(transactions, u, "REFUND") + RefundDue(a, u, w)
               /\ settlements[a] = NoRow
               /\ settlements'[a] =
                    Settlement(w, auctions[a].seller_id, auctions[a].current_highest_bid)
               /\ bids' = bids]_vars

\* The auction has been ended with a winner whose hold is HARD, and the
\* settlement is PENDING for the final bid.
C14_Witness ==
    \E a \in AuctionIds :
        /\ auctions[a].status = "ENDED"
        /\ settlements[a] # NoRow
        /\ settlements[a].status = "PENDING"
        /\ settlements[a].winner_id = auctions[a].highest_bidder_id
        /\ settlements[a].amount = auctions[a].current_highest_bid
        /\ Cardinality(HoldsOf(a, auctions[a].highest_bidder_id, {"HARD"})) = 1
        /\ Cardinality(HoldsOf(a, auctions[a].seller_id, {"RELEASED"})) = 1

-----------------------------------------------------------------------------
(* C15 *)

\* C15: ending an expired auction that has no highest bidder sets status
\* ENDED and changes nothing else: no settlement row, no hold, no balance,
\* no journal row; and ApproveSettlement on it is answered NotFound from
\* then on.
C15_EndWithoutBidder ==
    /\ [](\A a \in AuctionIds :
            (auctions[a].status = "ENDED" /\ auctions[a].highest_bidder_id = NoUser) =>
               /\ settlements[a] = NoRow
               /\ \A caller \in Users : ApproveCheck(a, caller) = "NotFound")
    /\ [][\A a \in AuctionIds :
            (Ends(a) /\ auctions[a].highest_bidder_id = NoUser) =>
               /\ now > auctions[a].end_time
               /\ auctions'[a] = [auctions[a] EXCEPT !.status = "ENDED"]
               /\ UNCHANGED <<wallet_balance, bids, bid_holds, transactions,
                              settlements>>]_vars

\* An auction ended without a bid, and without a settlement.
C15_Witness ==
    \E a \in AuctionIds :
        /\ auctions[a].status = "ENDED"
        /\ auctions[a].highest_bidder_id = NoUser
        /\ bids[a] = << >>
        /\ settlements[a] = NoRow

-----------------------------------------------------------------------------
(* C16 *)

\* The number of approvals stamped on a settlement row.
Approvals(row) ==
    (IF row.winner_approved THEN 1 ELSE 0) + (IF row.seller_approved THEN 1 ELSE 0)

\* A step that changes the settlement row of auction a, which exists.
Approves(a) ==
    settlements[a] # NoRow /\ settlements'[a] # settlements[a]

\* C16: the first approval only stamps the caller's side: the settlement
\* stays PENDING and no balance, hold or journal row changes; the approval
\* that makes both present sets the settlement COMPLETED, turns the winner's
\* HARD hold SETTLED, credits the seller the settlement amount and appends
\* two TRANSFER rows, one on the winner and one on the seller; a settlement
\* is COMPLETED exactly when both approvals are stamped.
C16_DualApproval ==
    /\ [](\A a \in AuctionIds :
            settlements[a] # NoRow =>
               (settlements[a].status = "COMPLETED" <=> BothApproved(settlements[a])))
    /\ [][\A a \in AuctionIds :
            Approves(a) =>
               LET row == settlements[a] IN
               /\ Approvals(settlements'[a]) = Approvals(row) + 1
               /\ row.winner_approved => settlements'[a].winner_approved
               /\ row.seller_approved => settlements'[a].seller_approved
               /\ UNCHANGED <<auctions, bids>>
               /\ Approvals(row) = 0 =>
                    /\ settlements'[a].status = "PENDING"
                    /\ UNCHANGED <<wallet_balance, bid_holds, transactions>>
               /\ Approvals(row) = 1 =>
                    /\ settlements'[a].status = "COMPLETED"
                    /\ bid_holds'[a] =
                         UpdateHolds(bid_holds[a], row.winner_id, "HARD", "SETTLED")
                    /\ wallet_balance' =
                         [wallet_balance EXCEPT ![row.seller_id] = @ + row.amount]
                    /\ transactions' = transactions
                         (+) SetToBag({Txn(row.winner_id, row.amount, "TRANSFER", a)})
                         (+) SetToBag({Txn(row.seller_id, row.amount, "TRANSFER", a)})]_vars

\* Both parties have approved: the settlement is COMPLETED, the winner's hold
\* is SETTLED and each party has its TRANSFER row.
C16_Witness ==
    \E a \in AuctionIds :
        /\ settlements[a] # NoRow
        /\ settlements[a].status = "COMPLETED"
        /\ BothApproved(settlements[a])
        /\ HoldsOf(a, settlements[a].winner_id, {"SETTLED"}) # {}
        /\ TransferRows(a, settlements[a].winner_id) = 1
        /\ TransferRows(a, settlements[a].seller_id) = 1

-----------------------------------------------------------------------------
(* C17 *)

\* What the checks of ApproveSettlement answer to caller on auction a,
\* condition by condition in the order they are made.
ApproveAnswer(a, caller) ==
    IF settlements[a] = NoRow THEN "NotFound"
    ELSE IF settlements[a].status = "COMPLETED" THEN "AlreadyCompleted"
    ELSE IF caller = settlements[a].winner_id /\ settlements[a].winner_approved
    THEN "AlreadyApproved"
    ELSE IF /\ caller # settlements[a].winner_id
            /\ caller = settlements[a].seller_id /\ settlements[a].seller_approved
    THEN "AlreadyApproved"
    ELSE IF caller \notin {settlements[a].winner_id, settlements[a].seller_id}
    THEN "Forbidden"
    ELSE ""

\* C17: ApproveSettlement is rejected with NotFound when the auction has no
\* settlement, Conflict when the settlement is COMPLETED, Conflict when the
\* caller's approval is already stamped, Forbidden when the caller is neither
\* party; an approval once stamped stays, a party's repeated call stamps
\* nothing, and the settlement row changes only through a call that passes
\* the checks.
C17_RejectedApproveChangesNothing ==
    /\ [](\A a \in AuctionIds, caller \in Users :
            ApproveCheck(a, caller) = ApproveAnswer(a, caller))
    /\ [](\A caller \in Users : ApproveCheck(NoAuction, caller) = "NotFound")
    /\ [][\A a \in AuctionIds :
            Approves(a) =>
               \E caller \in Users :
                  /\ ApproveAnswer(a, caller) = ""
                  /\ settlements'[a].winner_approved =
                       (settlements[a].winner_approved
                          \/ caller = settlements[a].winner_id)
                  /\ settlements'[a].seller_approved =
                       (settlements[a].seller_approved
                          \/ (caller = settlements[a].seller_id
                                /\ caller # settlements[a].winner_id))]_vars

\* The winner has approved and the settlement is PENDING: the winner's next
\* call is answered with the Conflict, a stranger's with Forbidden.
C17_Witness ==
    \E a \in AuctionIds :
        /\ settlements[a] # NoRow
        /\ settlements[a].status = "PENDING"
        /\ settlements[a].winner_approved
        /\ ApproveCheck(a, settlements[a].winner_id) = "AlreadyApproved"
        /\ \E caller \in Users : ApproveCheck(a, caller) = "Forbidden"

-----------------------------------------------------------------------------
(* C18 *)

\* The bids of auction a are A at X, then B at Y, then A at Z, A # B.
RoundTrip(a) ==
    /\ Len(bids[a]) = 3
    /\ bids[a][1].user_id = bids[a][3].user_id
    /\ bids[a][1].user_id # bids[a][2].user_id

\* The balance of user u less what u deposited, plus what u withdrew, less
\* the balance u started with.
NetChange(u) == wallet_balance[u] - Deposited(u) + Withdrawn(u) - SeedBalance(u)

\* C18: on an auction that started without a bidder, once A has bid X, B has
\* bid Y > X and A has bid Z > Y, and while the auction is ACTIVE: A's net
\* wallet change is -Z, A has exactly one SOFT hold, of Z, B's net wallet
\* change is 0, and A's hold of X and B's hold of Y are RELEASED.
C18_OutbidRoundTrip ==
    \A a \in AuctionIds :
        (RoundTrip(a) /\ Len(bid_holds[a]) = 3 /\ auctions[a].status = "ACTIVE") =>
            LET A == bids[a][1].user_id
                B == bids[a][2].user_id
            IN  /\ bids[a][1].amount < bids[a][2].amount
                /\ bids[a][2].amount < bids[a][3].amount
                /\ NetChange(A) = 0 - bids[a][3].amount
                /\ NetChange(B) = 0
                /\ bid_holds[a] =
                     << Hold(A, bids[a][1].amount, "RELEASED"),
                        Hold(B, bids[a][2].amount, "RELEASED"),
                        Hold(A, bids[a][3].amount, "SOFT") >>

\* A, B, A have bid in turn on an ACTIVE auction that started without a
\* bidder.
C18_Witness ==
    \E a \in AuctionIds :
        /\ RoundTrip(a) /\ Len(bid_holds[a]) = 3
        /\ auctions[a].status = "ACTIVE"
        /\ auctions[a].highest_bidder_id = bids[a][1].user_id

-----------------------------------------------------------------------------
(* C19 *)

\* C19 as stated: PlaceBid is answered AuctionClosed whenever the status is
\* not ACTIVE or the time is at or past the end time.
C19_ClosedAtEndTime ==
    \A a \in AuctionIds, amt \in Amounts :
        (auctions[a].status # "ACTIVE" \/ now >= auctions[a].end_time)
            => PlaceBidAuctionCheck(a, amt) = "AuctionClosed"

\* C19 amended: PlaceBid is answered AuctionClosed whenever the status is
\* not ACTIVE or the time is past the end time, whether or not the auction
\* has been ended; at the instant now = end_time an ACTIVE auction still
\* takes a bid above the current highest bid.
C19_ClosedAfterEndTime ==
    \A a \in AuctionIds, amt \in Amounts :
        /\ (auctions[a].status # "ACTIVE" \/ now > auctions[a].end_time)
              => PlaceBidAuctionCheck(a, amt) = "AuctionClosed"
        /\ (/\ auctions[a].status = "ACTIVE" /\ now = auctions[a].end_time
            /\ amt > auctions[a].current_highest_bid)
              => PlaceBidAuctionCheck(a, amt) = ""

\* The end time has passed and the auction, not yet ended, has a bid that
\* was taken at its end time or before.
C19_Witness ==
    \E a \in AuctionIds :
        /\ auctions[a].status = "ACTIVE"
        /\ now > auctions[a].end_time
        /\ bid_holds[a] # << >>
        /\ \A amt \in Amounts : PlaceBidAuctionCheck(a, amt) = "AuctionClosed"

-----------------------------------------------------------------------------
(* C20 *)

\* C20: once an auction is ENDED it stays ENDED, no bid row is inserted for
\* it, and its current highest bid and highest bidder never change.
C20_EndedIsFinal ==
    [][\A a \in AuctionIds :
          auctions[a].status = "ENDED" =>
             /\ auctions'[a].status = "ENDED"
             /\ bids'[a] = bids[a]
             /\ auctions'[a].current_highest_bid = auctions[a].current_highest_bid
             /\ auctions'[a].highest_bidder_id = auctions[a].highest_bidder_id]_vars

\* An auction was ended while a committed bid was still on its way to the
\* Hub, and a request for a higher amount is answered AuctionClosed.
C20_Witness ==
    \E a \in AuctionIds :
        /\ auctions[a].status = "ENDED"
        /\ \E p \in Procs : req[p].op = "PlaceBid" /\ Committed(p) /\ req[p].auction = a
        /\ auctions[a].current_highest_bid < MaxBid
        /\ PlaceBidAuctionCheck(a, MaxBid) = "AuctionClosed"

-----------------------------------------------------------------------------
(* C21 *)

\* C21: in every reachable state, every hold with status HARD belongs to an
\* auction whose status is ENDED.
C21_HardOnlyWhenEnded ==
    \A a \in AuctionIds : \A i \in 1 .. Len(bid_holds[a]) :
        bid_holds[a][i].status = "HARD" => auctions[a].status = "ENDED"

\* A hold is HARD.
C21_Witness ==
    \E a \in AuctionIds : \E i \in 1 .. Len(bid_holds[a]) :
        bid_holds[a][i].status = "HARD"

-----------------------------------------------------------------------------
(* C22 *)

HoldTransitions ==
    {<<"SOFT", "RELEASED">>, <<"SOFT", "HARD">>, <<"HARD", "SETTLED">>}

\* C22: in every step the holds of an auction that existed stay in place with
\* their user and amount, each keeps its status or changes it along
\* SOFT->RELEASED, SOFT->HARD or HARD->SETTLED (so RELEASED and SETTLED are
\* terminal), and every hold the step adds is SOFT.
C22_HoldLifecycle ==
    [][\A a \in AuctionIds :
          /\ Len(bid_holds'[a]) >= Len(bid_holds[a])
          /\ \A i \in 1 .. Len(bid_holds[a]) :
                /\ bid_holds'[a][i].user_id = bid_holds[a][i].user_id
                /\ bid_holds'[a][i].amount = bid_holds[a][i].amount
                /\ \/ bid_holds'[a][i].status = bid_holds[a][i].status
                   \/ <<bid_holds[a][i].status, bid_holds'[a][i].status>>
                         \in HoldTransitions
          /\ \A i \in Len(bid_holds[a]) + 1 .. Len(bid_holds'[a]) :
                bid_holds'[a][i].status = "SOFT"]_vars

\* One auction has a RELEASED hold, a SETTLED hold, and a hold of a user who
\* was outbid earlier and bid again.
C22_Witness ==
    \E a \in AuctionIds :
        /\ \E i \in 1 .. Len(bid_holds[a]) : bid_holds[a][i].status = "SETTLED"
        /\ \E i, j \in 1 .. Len(bid_holds[a]) :
              /\ i < j
              /\ bid_holds[a][i].status = "RELEASED"
              /\ bid_holds[a][j].user_id = bid_holds[a][i].user_id

-----------------------------------------------------------------------------
(* C23 *)

\* What a non-blocking send of msg leaves in connection c's buffer.
Enqueued(c, msg) ==
    IF Len(send[c]) < SendCap THEN Append(send[c], msg) ELSE send[c]

\* The connections of the room copy up to the first one whose buffer Run has
\* closed.
SentTo(room) ==
    {room[i] : i \in {k \in 1 .. Len(room) : \A j \in 1 .. k : ~closed[room[j]]}}

-----------------------------------------------------------------------------
(* C24 *)

\* The registered connections of user u.
RegisteredOf(u) == {c \in clients : client[c].ID = u}

\* Connections are numbered in the order they are handed to Hub.register, which
\* is the order Run registers them in.
MostRecent(cs) == CHOOSE c \in cs : \A d \in cs : d <= c

\* C24 as stated: whenever a user has a registered connection, userIndex maps
\* the user to the most recently registered of them.
C24_IndexNamesLatestConnection ==
    \A u \in Users :
        RegisteredOf(u) # {} => userIndex[u] = MostRecent(RegisteredOf(u))

\* What does hold: an entry of userIndex names a registered connection of that
\* user, the most recently registered one.
C24_IndexEntryIsLatest ==
    \A u \in Users :
        userIndex[u] # NoConn =>
            /\ RegisteredOf(u) # {}
            /\ userIndex[u] = MostRecent(RegisteredOf(u))

-----------------------------------------------------------------------------
(* C25 *)

\* How often connection c occurs in the sequence q.
Occurrences(q, c) == Cardinality({i \in 1 .. Len(q) : q[i] = c})

\* Connection c is in a room list or in userIndex.
Indexed(c) ==
    \/ \E a \in RoomIds : Occurrences(At(auctionRooms, a), c) > 0
    \/ \E u \in Users : userIndex[u] = c

\* Run has taken connection c's unregister from the channel.
UnregisterProcessed(c) == pump[c] = "exited" /\ Occurrences(unregister, c) = 0

\* C25 as stated: once a connection's unregister has been processed, the
\* connection is out of the clients set and of every index and its buffer has
\* been closed.
C25_UnregisterCleansUp ==
    \A c \in Conns :
        UnregisterProcessed(c) => c \notin clients /\ ~Indexed(c) /\ closed[c]

\* What does hold: unregister is signalled at most once per connection, by
\* readPump's exit only, after a read error or a write error; a buffer is
\* closed only by the step that takes a registered connection out of the
\* clients set and the indices, so never twice.
C25_AtMostOnce ==
    /\ [](\A c \in Conns :
            /\ Occurrences(unregister, c) <= 1
            /\ Occurrences(unregister, c) = 1 => pump[c] = "exited"
            /\ closed[c] => c \notin clients /\ ~Indexed(c) /\ pump[c] = "exited")
    /\ [][\A c \in Conns :
            /\ pump[c] = "exited" =>
                  /\ pump'[c] = "exited"
                  /\ Occurrences(unregister', c) <= Occurrences(unregister, c)
            /\ closed[c] => closed'[c]
            /\ (~closed[c] /\ closed'[c]) =>
                  /\ c \in clients /\ unregister # << >> /\ Head(unregister) = c
                  /\ c \notin clients' /\ ~Indexed(c)']_vars

-----------------------------------------------------------------------------
(* C26 *)

\* The chat_message msg is the message row with its id.
Persisted(msg, rows) ==
    /\ msg.id \in 1 .. Len(rows)
    /\ rows[msg.id].room_id = msg.room_id
    /\ rows[msg.id].sender_id = msg.sender_id
    /\ rows[msg.id].body \/ rows[msg.id].image_url

\* Connection c's readPump decides about the frame it has read.
Decides(c) == frame[c].pc = "frame" /\ frame'[c] # frame[c]

\* The frame is of type chat_send with a body or an image_url, from a
\* connection with a user id and a room id.
WellFormed(c, f) ==
    /\ f.json /\ f.type = "chat_send" /\ (f.body \/ f.image_url)
    /\ client[c].ID # NoUser /\ client[c].RoomID # NoRoom

\* C26: chat ingress persists before it broadcasts. Every chat_message handed
\* to the Hub is a row that was in the messages table before; readPump goes on
\* to broadcast only for a well-formed frame whose row it has just inserted,
\* with the frame's room, sender and content; for any other frame, and when
\* the insert fails, there is no row and no broadcast, the frame is forgotten,
\* and the connection stays as it was.
C26_PersistBeforeBroadcast ==
    /\ [](\A i \in 1 .. Len(hubCalls) :
            hubCalls[i].type = "chat_message" => Persisted(hubCalls[i], messages))
    /\ [][/\ hubCalls' # hubCalls =>
                /\ Len(hubCalls') = Len(hubCalls) + 1
                /\ Persisted(hubCalls'[Len(hubCalls')], messages)
                /\ messages' = messages
           /\ \A c \in Conns :
                Decides(c) =>
                  LET f == frame[c].id
                      row == [room_id |-> client[c].RoomID,
                              sender_id |-> client[c].ID,
                              body |-> f.body, image_url |-> f.image_url]
                  IN  /\ hubCalls' = hubCalls /\ send' = send
                      /\ pump' = pump /\ clients' = clients
                      /\ unregister' = unregister /\ closed' = closed
                      /\ IF WellFormed(c, f) /\ messages' # messages
                         THEN /\ messages' = Append(messages, row)
                              /\ frame'[c].pc = "broadcast"
                              /\ frame'[c].id = Len(messages')
                         ELSE /\ messages' = messages
                              /\ frame'[c] = NoFrame]_vars

\* A connection holds the chat_message of a frame another connection sent,
\* whose readPump is reading again, and the row is in the table.
C26_Witness ==
    \E c, d \in Conns :
        /\ c # d /\ send[c] # << >>
        /\ send[c][1].type = "chat_message"
        /\ send[c][1].sender_id = client[d].ID
        /\ client[d].ID # client[c].ID
        /\ Persisted(send[c][1], messages)
        /\ frame[d] = NoFrame /\ pump[d] = "running"

-----------------------------------------------------------------------------
(* C27 *)

\* u's id occurs in the room id.
InRoom(u, rid) == Contains(Chars(rid), Chars(u))

\* C27 as stated: no row is in the messages table, and no chat_message is
\* handed to the Hub, with a sender whose id is not contained in the room id,
\* and no room's messages are returned to such a caller.
C27_OnlyMembers ==
    /\ \A i \in 1 .. Len(messages) :
          InRoom(messages[i].sender_id, messages[i].room_id)
    /\ \A i \in 1 .. Len(hubCalls) :
          hubCalls[i].type = "chat_message" =>
              InRoom(hubCalls[i].sender_id, hubCalls[i].room_id)
    /\ \A p \in Procs :
          req[p].op = "GetMessages" => InRoom(req[p].user, req[p].room_id)

\* What does hold: the two HTTP handlers serve members only.
C27_HttpOnlyMembers ==
    /\ [](\A p \in Procs :
            req[p].op \in {"GetMessages", "SendMessage"} =>
                InRoom(req[p].user, req[p].room_id))
    /\ [][(messages' # messages /\ frame' = frame) =>
            /\ \E p \in Procs : Idle(p) /\ req'[p].op = "SendMessage"
            /\ InRoom(messages'[Len(messages')].sender_id,
                      messages'[Len(messages')].room_id)]_vars

-----------------------------------------------------------------------------
(* C28 *)

\* The step commits a bid on auction a by the user who was its highest bidder.
SelfRaise(a) ==
    /\ BidCommits(a)
    /\ auctions[a].highest_bidder_id # NoUser
    /\ auctions'[a].highest_bidder_id = auctions[a].highest_bidder_id

-----------------------------------------------------------------------------
(* Row locks.  A transaction that has taken its first lock waits, at each   *)
(* later SELECT ... FOR UPDATE, for the row its next step names.            *)

WaitsFor(p) ==
    CASE req[p].pc = "lockBidder" -> UserRow(req[p].user)
      [] req[p].pc = "lockPrev"   -> UserRow(req[p].prev)
      [] req[p].pc = "lockUser"   -> UserRow(req[p].user)
      [] req[p].pc = "lockSeller" -> UserRow(settlements[req[p].auction].seller_id)
      [] OTHER                    -> <<"none", "none">>

Blocks(q, p) == InTx(p) /\ q # p /\ WaitsFor(p) \in req[q].locks

Deadlocked(p, q) == Blocks(q, p) /\ Blocks(p, q)

(* C29: no two concurrently running transactions ever wait for a row lock   *)
(* the other one holds, so the locking order excludes deadlock.             *)
C29_NoDeadlock == \A p, q \in Procs : ~Deadlocked(p, q)

(* C29, supporting: a transaction takes user rows only after the auction   *)
(* row (PlaceBid) or the settlement row (ApproveSettlement).                *)
C29_UserRowsLast ==
    \A p \in Procs :
        (InTx(p) /\ req[p].op \in {"PlaceBid", "Approve"})
            => \/ AuctionRow(req[p].auction) \in req[p].locks
               \/ <<"settlements", req[p].auction>> \in req[p].locks

(* C29, the cycle of the claim's example: two bids on different auctions,   *)
(* each bidder being the previous highest bidder of the other auction.      *)
C29_CrossBidCycle ==
    \E p, q \in Procs :
        /\ Deadlocked(p, q)
        /\ req[p].op = "PlaceBid" /\ req[q].op = "PlaceBid"
        /\ req[p].auction # req[q].auction
        /\ req[p].prev = req[q].user /\ req[q].prev = req[p].user

-----------------------------------------------------------------------------
\* A step that commits a bid on auction a by someone other than its highest
\* bidder.
Displaced(a) ==
    /\ BidCommits(a)
    /\ auctions[a].highest_bidder_id # NoUser
    /\ auctions'[a].highest_bidder_id # auctions[a].highest_bidder_id

\* The SOFT holds of user u on auction a that the step sets to RELEASED.
ReleasedNow(a, u) ==
    {i \in HoldsOf(a, u, {"SOFT"}) : bid_holds'[a][i].status = "RELEASED"}

(* C30: a bid that displaces the highest bidder commits only when that user *)
(* has exactly one SOFT hold on the auction, and the step that credits them *)
(* the previous high bid releases exactly one SOFT hold of theirs.          *)
C30_RefundNeedsOneSoftHold ==
    [][\A a \in AuctionIds :
          Displaced(a) =>
            LET prev == auctions[a].highest_bidder_id
            IN  /\ Cardinality(HoldsOf(a, prev, {"SOFT"})) = 1
                /\ wallet_balance'[prev] > wallet_balance[prev]
                     => Cardinality(ReleasedNow(a, prev)) = 1]_vars

(* C30, supporting: the displaced bidder is credited exactly the previous   *)
(* high bid and every SOFT hold of theirs on the auction, however many      *)
(* there are, is RELEASED by the commit.                                    *)
C30_RefundRegardlessOfHolds ==
    [][\A a \in AuctionIds :
          Displaced(a) =>
            LET prev == auctions[a].highest_bidder_id
            IN  /\ wallet_balance'[prev]
                     = wallet_balance[prev] + auctions[a].current_highest_bid
                /\ ReleasedNow(a, prev) = HoldsOf(a, prev, {"SOFT"})]_vars

(* C30: a displaced bidder has been refunded although no hold of theirs,    *)
(* or two of them, stood on the auction.                                    *)
C30_RefundWithoutHold ==
    \E a \in AuctionIds : \E u \in Users :
        /\ Txn(u, 1, "REFUND", a) \in DOMAIN transactions
        /\ HoldsOf(a, u, {"SOFT", "RELEASED", "HARD", "SETTLED"}) = {}

(* C30: the same with two holds, after the displaced bidder raised their    *)
(* own bid: both are RELEASED and the last bid is refunded.                 *)
C30_RefundWithTwoHolds ==
    \E a \in AuctionIds : \E u \in Users :
        /\ Txn(u, 2, "REFUND", a) \in DOMAIN transactions
        /\ Cardinality(HoldsOf(a, u, {"RELEASED"})) = 2

-----------------------------------------------------------------------------
\* Run is a goroutine of its own that loops for ever over a select on the two
\* channels (genhash/main.go:79-107, started at part_004:38): an event that
\* stays in a channel is eventually received.
FairHub ==
    /\ InitHub
    /\ [][NextHub]_vars
    /\ WF_vars(RunRegister)
    /\ WF_vars(RunUnregister)

\* Connection c is out of the clients set and of the three indices and its
\* buffer is closed, which ends writePump's range over it.
CleanedUp(c) ==
    /\ c \notin clients
    /\ ~Indexed(c)
    /\ \A r \in ChatRoomIds : Occurrences(At(chatRooms, r), c) = 0
    /\ closed[c]

(* C31: every connection whose read has failed (after a write error, or     *)
(* because the peer left) is eventually cleaned up by Run: it leaves the    *)
(* clients set and the three indices and its buffer is closed.              *)
C31_EventuallyCleanedUp ==
    \A c \in Conns : (pump[c] = "exited") ~> CleanedUp(c)

(* C31, supporting: a connection that Run registered before receiving its   *)
(* unregister is eventually cleaned up.                                     *)
C31_CleanedUpWhenRegisteredFirst ==
    \A c \in Conns :
        (pump[c] = "exited" /\ c \in clients /\ Occurrences(unregister, c) = 1)
            ~> CleanedUp(c)

(* C31: the state the hub stays in when the unregister was received first:  *)
(* the connection is registered, nothing is left in the channels and its    *)
(* buffer is open.                                                          *)
C31_Leaked ==
    \E c \in Conns :
        /\ pump[c] = "exited"
        /\ c \in clients
        /\ register = << >> /\ unregister = << >>
        /\ ~closed[c]

-----------------------------------------------------------------------------
\* The step makes the sends of a fan-out whose copy of the room, or whose
\* target, holds a connection that Run has closed since the copy was taken.
SendsOnClosed ==
    \/ \E p \in Procs :
         /\ req[p].pc = "fanOut" /\ req'[p].pc # "fanOut"
         /\ Panics(req[p].room)
    \/ \E p \in Procs :
         /\ req[p].pc = "alert" /\ req'[p].pc # "alert"
         /\ closed[req[p].target]
    \/ \E c \in Conns :
         /\ frame[c].pc = "fanOut" /\ frame'[c].pc # "fanOut"
         /\ Panics(frame[c].room)

(* C32: no step of BroadcastToAuction, BroadcastToChat or SendToUser sends  *)
(* on a buffer that has been closed.                                        *)
C32_NoSendOnClosed == [][~SendsOnClosed]_vars

(* C32, supporting: when a fan-out takes its copy under the read lock no    *)
(* connection of the copy, and no connection userIndex names, is closed.    *)
C32_SnapshotIsOpen ==
    /\ [](\A a \in RoomIds : ~Panics(At(auctionRooms, a)))
    /\ [](\A r \in ChatRoomIds : ~Panics(At(chatRooms, r)))
    /\ [](\A u \in Users : userIndex[u] # NoConn => ~closed[userIndex[u]])

(* C32: a fan-out is between its copy and its sends and a connection of the *)
(* copy has been unregistered and closed meanwhile.                         *)
C32_ClosedInSnapshot ==
    \E p \in Procs :
        /\ req[p].pc = "fanOut"
        /\ \E i \in 1 .. Len(req[p].room) :
              closed[req[p].room[i]] /\ req[p].room[i] \notin clients

-----------------------------------------------------------------------------
\* The amounts of the broadcast_new_bid messages of auction a that wait in
\* buffer q, in the order they were enqueued.
BidAmounts(q, a) ==
    LET bs == SelectSeq(q, LAMBDA m : m.type = "broadcast_new_bid"
                                      /\ m.auction_id = a)
    IN  [i \in 1 .. Len(bs) |-> bs[i].amount]

StrictlyIncreasing(s) == \A i, j \in 1 .. Len(s) : i < j => s[i] < s[j]

(* C33: the broadcast_new_bid messages of one auction that wait in a        *)
(* connection's buffer were enqueued in commit order: their amounts         *)
(* increase strictly from the first enqueued to the last.                   *)
C33_EnqueuedInCommitOrder ==
    \A c \in Conns : \A a \in AuctionIds :
        StrictlyIncreasing(BidAmounts(send[c], a))

(* C33, supporting: every broadcast_new_bid in a buffer carries the amount  *)
(* of a committed bid of its auction, by the bidder who placed it.          *)
C33_BroadcastsAreCommittedBids ==
    \A c \in Conns : \A i \in 1 .. Len(send[c]) :
        send[c][i].type = "broadcast_new_bid" =>
            \E j \in 1 .. Len(bids[send[c][i].auction_id]) :
                /\ bids[send[c][i].auction_id][j].amount = send[c][i].amount
                /\ bids[send[c][i].auction_id][j].user_id = send[c][i].bidder_id

(* C33: every request has finished, a registered connection got both        *)
(* broadcasts, and the one it got last carries less than the auction's      *)
(* current highest bid.                                                     *)
C33_StaleLast ==
    \E c \in clients : \E a \in AuctionIds :
        /\ \A p \in Procs : Idle(p)
        /\ Len(BidAmounts(send[c], a)) = 2
        /\ BidAmounts(send[c], a)[2] < auctions[a].current_highest_bid
        /\ BidAmounts(send[c], a)[1] = auctions[a].current_highest_bid

-----------------------------------------------------------------------------
\* The settlement of auction a waits for approvals.
Pending(a) == settlements[a] # NoRow /\ settlements[a].status = "PENDING"

\* ApproveSettlement accepts each approval the settlement of a still lacks,
\* from the party it is lacking from.
MissingApprovalsAccepted(a) ==
    /\ ~settlements[a].winner_approved
          => ApproveCheck(a, settlements[a].winner_id) = ""
    /\ ~settlements[a].seller_approved
          => ApproveCheck(a, settlements[a].seller_id) = ""

(* C34: every PENDING settlement can be completed: whichever approval it    *)
(* lacks, ApproveSettlement accepts it from the winner or from the seller,  *)
(* also when the seller is the winner.                                      *)
C34_PendingCanComplete ==
    \A a \in AuctionIds : Pending(a) => MissingApprovalsAccepted(a)

(* C34, supporting: the same for the settlements whose winner is not the    *)
(* seller; and the approval that makes both stamps stand completes the      *)
(* settlement, settles each HARD hold of the winner and credits the seller. *)
C34_DistinctPartiesComplete ==
    /\ [](\A a \in AuctionIds :
            (Pending(a) /\ settlements[a].winner_id # settlements[a].seller_id)
                => MissingApprovalsAccepted(a))
    /\ [][\A a \in AuctionIds :
            (Pending(a) /\ settlements'[a].status = "COMPLETED") =>
                /\ settlements'[a].winner_approved /\ settlements'[a].seller_approved
                /\ \A i \in HoldsOf(a, settlements[a].winner_id, {"HARD"}) :
                      bid_holds'[a][i].status = "SETTLED"
                /\ wallet_balance'[settlements[a].seller_id]
                     = wallet_balance[settlements[a].seller_id]
                         + settlements[a].amount]_vars

(* C34: a settlement whose winner is the seller has the winner's stamp and  *)
(* no request in flight; every further approval is refused and the HARD     *)
(* hold stays.                                                              *)
C34_Stuck ==
    \E a \in AuctionIds :
        /\ Pending(a)
        /\ settlements[a].winner_id = settlements[a].seller_id
        /\ settlements[a].winner_approved /\ ~settlements[a].seller_approved
        /\ \A u \in Users : ApproveCheck(a, u) # ""
        /\ HoldsOf(a, settlements[a].winner_id, {"HARD"}) # {}
        /\ \A p \in Procs : Idle(p)

(* C34: a settlement of two distinct parties has been completed.            *)
C34_Completed ==
    \E a \in AuctionIds :
        /\ settlements[a] # NoRow
        /\ settlements[a].status = "COMPLETED"
        /\ settlements[a].winner_id # settlements[a].seller_id

-----------------------------------------------------------------------------
\* What the step credits user u, and what it adds to u's REFUND rows.
Credited(u) == wallet_balance'[u] - wallet_balance[u]

Refunded(u) ==
    JournalSum(transactions', u, "REFUND") - JournalSum(transactions, u, "REFUND")

\* The step credits and journals for u exactly what the holds of u on a that
\* it releases amount to.
RefundsReleased(a, u) ==
    /\ Credited(u) = SumAmounts(bid_holds[a], ReleasedNow(a, u))
    /\ Refunded(u) = SumAmounts(bid_holds[a], ReleasedNow(a, u))

(* C35: a step that turns SOFT holds of a user RELEASED credits that user   *)
(* exactly the sum of the amounts of those holds and adds REFUND journal    *)
(* rows of the same total.                                                  *)
C35_ReleaseRefundsHeld ==
    [][\A a \in AuctionIds : \A u \in Users :
          ReleasedNow(a, u) # {} => RefundsReleased(a, u)]_vars

(* C35, supporting: the same when the step releases a single hold of the    *)
(* user; and a step releasing several credits and journals the amount of    *)
(* the last of them only, which is the bid that was displaced.              *)
C35_SingleReleaseRefundsHeld ==
    [][\A a \in AuctionIds : \A u \in Users :
          /\ Cardinality(ReleasedNow(a, u)) = 1 => RefundsReleased(a, u)
          /\ Cardinality(ReleasedNow(a, u)) > 1 =>
                /\ Credited(u) = auctions[a].current_highest_bid
                /\ Refunded(u) = auctions[a].current_highest_bid
                /\ Credited(u) < SumAmounts(bid_holds[a], ReleasedNow(a, u))]_vars

(* C35: a user was displaced after raising their own bid: two holds are     *)
(* RELEASED and the REFUND rows amount to less than the two holds.          *)
C35_RefundShort ==
    \E a \in AuctionIds : \E u \in Users :
        /\ Cardinality(HoldsOf(a, u, {"RELEASED"})) = 2
        /\ JournalSum(transactions, u, "REFUND")
             < SumAmounts(bid_holds[a], HoldsOf(a, u, {"RELEASED"}))

(* C35, supporting: no user but the highest bidder has a SOFT hold, so the  *)
(* Finalizer finds no other SOFT hold to release.                           *)
C35_OnlyHighestHoldsSoft ==
    \A a \in AuctionIds : \A u \in Users :
        HoldsOf(a, u, {"SOFT"}) # {} => u = auctions[a].highest_bidder_id

-----------------------------------------------------------------------------
\* The clock readings.
Times == 0 .. MaxTime

\* On an ACTIVE auction and at every clock reading, PlaceBid's time check
\* passes iff endAuctionIfExpired's does not fire.
ChecksExclusive ==
    \A a \in AuctionIds : \A t \in Times :
        auctions[a].status = "ACTIVE" =>
            (AuctionOpen(auctions[a].status, auctions[a].end_time, t)
                <=> ~Expired(auctions[a].status, auctions[a].end_time, t))

\* endAuctionIfExpired's check fires on auction a at the present reading.
ExpiredNow(a) == Expired(auctions[a].status, auctions[a].end_time, now)

(* C36 as stated: the two time checks exclude and complement each other on  *)
(* every clock reading, and no bid commits on an auction at a reading at    *)
(* which the Finalizer's check fires.                                       *)
C36_NoCommitOnceExpired ==
    /\ []ChecksExclusive
    /\ [][\A a \in AuctionIds : BidCommits(a) => ~ExpiredNow(a)]_vars

(* C36 amended: the two time checks exclude and complement each other on    *)
(* every clock reading; the clock never goes back and a check that fires    *)
(* keeps firing until the auction is ended; a PlaceBid passes its check,    *)
(* when it has locked the auction row, only at a reading at which the       *)
(* Finalizer's check does not fire; and a bid commits only on an auction    *)
(* that has not been ended, by the holder of its row lock.                  *)
C36_ChecksExclusive ==
    /\ []ChecksExclusive
    /\ [][now' >= now]_vars
    /\ [][\A a \in AuctionIds :
            /\ ExpiredNow(a) => (ExpiredNow(a)' \/ auctions'[a].status = "ENDED")
            /\ BidCommits(a) =>
                  /\ auctions[a].status = "ACTIVE" /\ auctions'[a].status = "ACTIVE"
                  /\ \E p \in Procs : AuctionRow(a) \in req[p].locks]_vars
    /\ [][\A p \in Procs :
            (Idle(p) /\ req'[p].op = "PlaceBid")
                => ~ExpiredNow(req'[p].auction)]_vars

(* C36: a bid passed its check at the end time or before and holds the      *)
(* auction row; the clock is now past the end time, the Finalizer's check   *)
(* fires and every new bid is refused.                                      *)
C36_Witness ==
    \E p \in Procs :
        /\ req[p].op = "PlaceBid" /\ InTx(p)
        /\ AuctionRow(req[p].auction) \in req[p].locks
        /\ ExpiredNow(req[p].auction)
        /\ \A amt \in Amounts :
              PlaceBidAuctionCheck(req[p].auction, amt) = "AuctionClosed"

-----------------------------------------------------------------------------
\* The auction row of a names the user and the amount of its latest bid
\* record.
RowNamesLastBid(a) ==
    /\ auctions[a].highest_bidder_id = LastBid(a).user_id
    /\ auctions[a].current_highest_bid = LastBid(a).amount

(* C37: bid records are only appended; the amounts of an auction's bid      *)
(* records increase strictly in commit order; the auction row names the     *)
(* user and amount of the latest bid record, after every commit and in      *)
(* every state; and the settlement of the auction names that user and       *)
(* amount.                                                                  *)
C37_BidHistoryAgrees ==
    /\ [][\A a \in AuctionIds :
            \/ bids'[a] = bids[a]
            \/ /\ Len(bids'[a]) = Len(bids[a]) + 1
               /\ SubSeq(bids'[a], 1, Len(bids[a])) = bids[a]
               /\ RowNamesLastBid(a)'
               /\ bids[a] # << >> => LastBid(a)'.amount > LastBid(a).amount]_vars
    /\ [](\A a \in AuctionIds :
            /\ StrictlyIncreasing([i \in 1 .. Len(bids[a]) |-> bids[a][i].amount])
            /\ bids[a] # << >> => RowNamesLastBid(a)
            /\ settlements[a] # NoRow =>
                  /\ settlements[a].winner_id = auctions[a].highest_bidder_id
                  /\ settlements[a].amount = auctions[a].current_highest_bid
                  /\ bids[a] # << >> =>
                        /\ settlements[a].winner_id = LastBid(a).user_id
                        /\ settlements[a].amount = LastBid(a).amount)

(* C37: an auction took two bids from different users and was ended; its    *)
(* settlement names the second.                                             *)
C37_Witness ==
    \E a \in AuctionIds :
        /\ Len(bids[a]) >= 2
        /\ bids[a][Len(bids[a]) - 1].user_id # LastBid(a).user_id
        /\ settlements[a] # NoRow
        /\ settlements[a].winner_id = LastBid(a).user_id
        /\ settlements[a].amount = LastBid(a).amount

-----------------------------------------------------------------------------
\* The connections a room map refers to.
InRooms(m) == UNION {{m[k][i] : i \in 1 .. Len(m[k])} : k \in DOMAIN m}

\* The connections userIndex refers to.
InUserIndex == {userIndex[u] : u \in Users} \ {NoConn}

\* No connection is twice in a list of room map m and no key of m has an
\* empty list.
WellFormedRooms(m) ==
    \A k \in DOMAIN m :
        /\ m[k] # << >>
        /\ \A i, j \in 1 .. Len(m[k]) : m[k][i] = m[k][j] => i = j

(* C38: every connection that userIndex, an auction room or a chat room     *)
(* refers to is in the clients set and its buffer is open; no connection is *)
(* twice in a room list; and no room key has an empty list.                 *)
C38_IndicesConsistent ==
    /\ \A c \in InUserIndex \cup InRooms(auctionRooms) \cup InRooms(chatRooms) :
          c \in clients /\ ~closed[c]
    /\ WellFormedRooms(auctionRooms)
    /\ WellFormedRooms(chatRooms)

(* C38: the last connection of an auction's room has been unregistered and  *)
(* the room's key is gone, while another connection is registered and       *)
(* userIndex names it.                                                      *)
C38_Witness ==
    \E c, d \in Conns :
        /\ closed[c] /\ c \notin clients
        /\ client[c].AuctionID \in RoomIds
        /\ client[c].AuctionID \notin DOMAIN auctionRooms
        /\ d \in clients /\ d \in InUserIndex

-----------------------------------------------------------------------------
(* C39: every bid record of an auction has an amount of at least the        *)
(* auction's start price.                                                   *)
C39_BidsAtLeastStartPrice ==
    \A a \in AuctionIds : \A i \in 1 .. Len(bids[a]) :
        bids[a][i].amount >= auctions[a].start_price

(* C39, supporting: a bid that commits on an auction whose current highest  *)
(* bid is at least the start price, as on the seeded auctions and after a   *)
(* first bid at or above the start price, is above the start price; the     *)
(* start price itself never changes.                                        *)
C39_AboveStartOnceReached ==
    [][\A a \in AuctionIds :
          /\ auctions'[a].start_price = auctions[a].start_price
          /\ (/\ BidCommits(a)
              /\ auctions[a].current_highest_bid >= auctions[a].start_price)
                => LastBid(a)'.amount > auctions[a].start_price]_vars

(* C39: a created auction's highest bid, committed, is below its start      *)
(* price.                                                                   *)
C39_BelowStartPrice ==
    \E a \in AuctionIds :
        /\ bids[a] # << >>
        /\ auctions[a].highest_bidder_id = LastBid(a).user_id
        /\ auctions[a].current_highest_bid < auctions[a].start_price

-----------------------------------------------------------------------------
\* The step makes a new WebSocket.
Opens(s) == sockets[s] = NoSocket /\ sockets'[s] # NoSocket

\* The cleanup of effect run g has run.
EffectCleanedUp(g) == g < effect.run \/ (g = effect.run /\ ~effect.active)

\* The sockets that are connecting or open, and the timers that are pending.
Live == {s \in Sockets : sockets[s].readyState \in {"CONNECTING", "OPEN"}}

PendingTimers == {s \in Sockets : sockets[s].timer = "pending"}

(* C40: no WebSocket is made by an effect run whose cleanup has run; the    *)
(* close event of a socket the cleanup closed sets no reconnect timer; and  *)
(* the reconnect attempts since the last successful open, which             *)
(* retryCount counts, are never more than 5.                                *)
C40_NoReconnectAfterCleanup ==
    /\ [][\A s \in Sockets :
            /\ Opens(s) => ~EffectCleanedUp(sockets'[s].effect)
            /\ (sockets[s].readyState = "CLOSING" /\ sockets'[s].readyState = "CLOSED")
                  => sockets'[s].timer = "none"]_vars
    /\ [](retryCount <= MaxRetries)

(* C40, supporting: from the mount until the first cleanup the hook has at  *)
(* most one socket connecting or open or one timer pending, every socket is *)
(* made by the run in force, and retryCount is at most 5; and the cleanup   *)
(* clears the timer retryTimer names and leaves the socket wsRef names      *)
(* neither connecting nor open.                                             *)
C40_BoundedUntilCleanup ==
    /\ []((effect.run = 1 /\ effect.active) =>
            /\ Cardinality(Live) + Cardinality(PendingTimers) <= 1
            /\ retryCount <= MaxRetries
            /\ \A s \in Sockets : sockets[s] # NoSocket => sockets[s].effect = 1)
    /\ [][(effect.active /\ (~effect'.active \/ effect'.run # effect.run)) =>
            /\ retryTimer # 0 => sockets'[retryTimer].timer # "pending"
            /\ wsRef # 0 => sockets'[wsRef].readyState \notin {"CONNECTING", "OPEN"}]_vars

(* C40: the component is unmounted and a socket of its hook is connecting   *)
(* or open.                                                                 *)
C40_ConnectedAfterUnmount ==
    /\ ~effect.active /\ effect.run > 0
    /\ Live # {}

(* C40: more than 5 reconnect attempts have been made since the last        *)
(* successful open.                                                         *)
C40_TooManyRetries == retryCount > MaxRetries

=============================================================================
